---- MODULE Spec2Model ----
(***************************************************************************)
(* The dev server's invocation bridge (InvocationBridge), the request      *)
(* handlers that drive it (DevServerHandlers) and the SDK's runtime loop    *)
(* (waitForAndHandleInvocation / runInvocationLoop).                        *)
(*                                                                         *)
(* Node runs every handler on one event loop: the code between two awaits  *)
(* is one atomic step.  Each action below is one such step of one handler. *)
(***************************************************************************)
EXTENDS Integers, Sequences, FiniteSets, TLC

\* ------------------------------------------------------------------ bounds

\* How many GET .../invocation/next requests arrive.
MaxNext == 2
\* How many POST /v1/functions/:name/invoke requests arrive.
MaxInvoke == 2
\* How many POST .../invocation/:requestId/{response,error} requests arrive.
MaxPost == 2
\* How many requests arrive that no handler route matches.
MaxOther == 1

\* ----------------------------------------------------------- value spaces

\* null, for a held connection and for a request id.
NULL == 0

\* null, for currentFunctionName.
NoName == "<null>"

\* ServerResponse objects, one per request: those of the GET next requests, of
\* the invoke requests and of the outcome POSTs, each kind in order of arrival.
NextIds == 1..MaxNext

InvokeIds == (MaxNext + 1)..(MaxNext + MaxInvoke)

OutcomeIds == (MaxNext + MaxInvoke + 1)..(MaxNext + MaxInvoke + MaxPost)

\* ... and those of the requests that handleRequest answers itself.
OtherIds == (MaxNext + MaxInvoke + MaxPost + 1)..(MaxNext + MaxInvoke + MaxPost + MaxOther)

ResIds == NextIds \cup InvokeIds \cup OutcomeIds \cup OtherIds

\* Requests that match none of the four handler routes.
OtherRequests == {<<"GET", "/">>, <<"OPTIONS", "/">>, <<"POST", "/">>,
                  <<"OPTIONS", "/v1/functions/echo/invoke">>,
                  <<"GET", "/v1/functions/echo/invoke">>}

\* Request ids a runtime may put in the path of an outcome POST: the ids the
\* bridge can issue (an id is unknown to the bridge until it is issued).
RequestIds == 1..MaxInvoke

\* Function names in the URL path ("" only by a direct call of the handler).
FunctionNames == {"echo", "ghost", ""}

\* The names the manifest store holds.
ManifestNames == {"echo"}

\* Raw request bodies of the invoke endpoint, by what parsing makes of them.
InvokeBodies == {"", "{\"params\":{\"x\":1}}", "{\"functionName\":\"echo\"}",
                 "{\"context\":5}", "garbage"}

\* Raw request bodies of the response endpoint.
ResultBodies == {"", "null", "{\"y\":2}", "garbage"}

\* Raw request bodies of the error endpoint.
ErrorBodies == {"{\"errorMessage\":\"boom\",\"errorType\":\"Error\",\"stackTrace\":[]}",
                "{\"errorMessage\":\"boom\"}", "garbage"}

VARIABLES
    bridge,      \* the InvocationBridge's fields
    uuids,       \* how many request ids randomUUID has produced for the bridge
    responses,   \* ServerResponse objects: kind, what was written, closed
    tasks,       \* the position of each request's handler
    sessions,    \* browser sessions, keyed by the invoke request that made them
    environment, \* the environment argument of runInvocationLoop
    lpc,         \* where the runtime loop stands
    iter,        \* how many iterations of the runtime loop have started
    cur,         \* the locals of waitForAndHandleInvocation: requestId, functionName
    log,         \* the calls the loop made and how each settled, in order
    functions,   \* FunctionRegistry._functions: name -> {name, handler, config}
    registered,  \* the register calls made on the registry so far (history)
    lastExecute, \* the latest execute call: its name, the handler it ran, how it settled
    processEnv,  \* the process environment an EnvironmentManager is built from
    manager,     \* the EnvironmentManager's fields
    source,      \* the defineFn calls an entrypoint makes, in order
    at,          \* how many of them the running process has made
    dir,         \* the manifests directory: file name -> contents
    runs,        \* the directory as each completed run left it (history)
    clears,      \* how often the running process removed and remade the directory
    manifests,   \* ManifestStore.manifests of the dev server: name -> manifest
    present,     \* whether the manifests directory exists
    spc,         \* where startDevServer stands
    thrown,      \* the value a handler threw, as handleFailure receives it
    formatted    \* the RuntimeError handleFailure made of it

serverVars == <<bridge, uuids, responses, tasks, sessions>>

loopVars == <<environment, lpc, iter, cur, log>>

errorVars == <<thrown, formatted>>

storeVars == <<manifests, present, spc>>

sdkVars == <<functions, registered, lastExecute, processEnv, manager, source, at,
             dir, runs, clears, errorVars, storeVars>>

vars == <<serverVars, loopVars, sdkVars>>

\* ------------------------------------------------------------- responses

NoResponse == [kind |-> "none", writes |-> <<>>, closed |-> FALSE]

\* A handler's frame: where it stands, its path parameters, and (history, read
\* by no code) whether an invocation was active when its trigger was refused.
NoTask == [pc |-> "none", fn |-> NoName, rid |-> NULL, busy |-> FALSE]

NoSession == [created |-> FALSE, closeCalls |-> 0]

\* A response body: the JSON the code serialises, with the parts claims read.
Body(tag, text, id, sid) == [tag |-> tag, text |-> text, id |-> id, sid |-> sid]

\* res.writeHead(status, ...); res.end(body)
sendJson(rs, r, statusCode, data) ==
    [rs EXCEPT ![r].writes = Append(@, [status |-> statusCode, body |-> data])]

sendError(rs, r, error, statusCode, message) ==
    sendJson(rs, r, statusCode, Body(error, message, NULL, NULL))

sendBadRequest(rs, r, message) == sendError(rs, r, "Bad Request", 400, message)

sendNotFound_asBadRequest(rs, r, message) == sendError(rs, r, "Bad Request", 400, message)

sendNotFound(rs, r, message) == sendError(rs, r, "Not Found", 404, message)

sendInternalError(rs, r, message) ==
    sendError(rs, r, "Internal Server Error", 500, message)

sendServiceUnavailable(rs, r, message) ==
    sendError(rs, r, "Service Unavailable", 503, message)

sendAccepted(rs, r) == sendJson(rs, r, 202, Body("status", "accepted", NULL, NULL))

\* ---------------------------------------------------------------- bridge

\* randomUUID(): a value no earlier call returned.
randomUUID(n) == n + 1

\* holdNextConnection replacing the held connection without answering it.
holdNextConnection_silent(b, rs, response) ==
    [bridge |-> [b EXCEPT !.nextConnection = response,
                          !.runtimeConnectedOnce = TRUE],
     responses |-> rs]

\* holdNextConnection that starts from a clean bridge.
holdNextConnection_resets(b, rs, response) ==
    LET rs1 == IF b.nextConnection # NULL
               THEN sendJson(rs, b.nextConnection, 503,
                             Body("error", "Another runtime connected", NULL, NULL))
               ELSE rs
    IN [bridge |-> [b EXCEPT !.nextConnection = response,
                             !.runtimeConnectedOnce = TRUE,
                             !.invokeConnection = NULL,
                             !.currentRequestId = NULL,
                             !.currentFunctionName = NoName],
        responses |-> rs1]

holdNextConnection(b, rs, response) ==
    LET rs1 == IF b.nextConnection # NULL
               THEN sendJson(rs, b.nextConnection, 503,
                             Body("error", "Another runtime connected", NULL, NULL))
               ELSE rs
    IN [bridge |-> [b EXCEPT !.nextConnection = response,
                             !.runtimeConnectedOnce = TRUE],
        responses |-> rs1]

\* triggerInvocation without the check for an active invocation.
triggerInvocation_unchecked(b, rs, n, functionName, sid, invokeResponse) ==
    IF b.nextConnection = NULL
    THEN [ret |-> FALSE, bridge |-> b, responses |-> rs, uuids |-> n]
    ELSE LET requestId == randomUUID(n)
         IN [ret |-> TRUE,
             bridge |-> [b EXCEPT !.currentRequestId = requestId,
                                  !.currentFunctionName = functionName,
                                  !.invokeConnection = invokeResponse,
                                  !.nextConnection = NULL],
             responses |-> sendJson(rs, b.nextConnection, 200,
                                    Body("payload", functionName, requestId, sid)),
             uuids |-> requestId]

\* triggerInvocation that leaves the consumed next connection in place.
triggerInvocation_keepsNext(b, rs, n, functionName, sid, invokeResponse) ==
    IF b.nextConnection = NULL
    THEN [ret |-> FALSE, bridge |-> b, responses |-> rs, uuids |-> n]
    ELSE IF b.invokeConnection # NULL
    THEN [ret |-> FALSE, bridge |-> b, responses |-> rs, uuids |-> n]
    ELSE LET requestId == randomUUID(n)
         IN [ret |-> TRUE,
             bridge |-> [b EXCEPT !.currentRequestId = requestId,
                                  !.currentFunctionName = functionName,
                                  !.invokeConnection = invokeResponse],
             responses |-> sendJson(rs, b.nextConnection, 200,
                                    Body("payload", functionName, requestId, sid)),
             uuids |-> requestId]

\* triggerInvocation that, finding an invocation active, sends the waiting
\* runtime away before it returns false.
triggerInvocation_busyDropsNext(b, rs, n, functionName, sid, invokeResponse) ==
    IF b.nextConnection = NULL
    THEN [ret |-> FALSE, bridge |-> b, responses |-> rs, uuids |-> n]
    ELSE IF b.invokeConnection # NULL
    THEN [ret |-> FALSE,
          bridge |-> [b EXCEPT !.nextConnection = NULL],
          responses |-> sendJson(rs, b.nextConnection, 503,
                                 Body("error", "Busy", NULL, NULL)),
          uuids |-> n]
    ELSE LET requestId == randomUUID(n)
         IN [ret |-> TRUE,
             bridge |-> [b EXCEPT !.currentRequestId = requestId,
                                  !.currentFunctionName = functionName,
                                  !.invokeConnection = invokeResponse,
                                  !.nextConnection = NULL],
             responses |-> sendJson(rs, b.nextConnection, 200,
                                    Body("payload", functionName, requestId, sid)),
             uuids |-> requestId]

triggerInvocation(b, rs, n, functionName, sid, invokeResponse) ==
    IF b.nextConnection = NULL
    THEN [ret |-> FALSE, bridge |-> b, responses |-> rs, uuids |-> n]
    ELSE IF b.invokeConnection # NULL
    THEN [ret |-> FALSE, bridge |-> b, responses |-> rs, uuids |-> n]
    ELSE LET requestId == randomUUID(n)
         IN [ret |-> TRUE,
             bridge |-> [b EXCEPT !.currentRequestId = requestId,
                                  !.currentFunctionName = functionName,
                                  !.invokeConnection = invokeResponse,
                                  !.nextConnection = NULL],
             responses |-> sendJson(rs, b.nextConnection, 200,
                                    Body("payload", functionName, requestId, sid)),
             uuids |-> requestId]

\* completeWithSuccess that forgets to reset currentRequestId.
completeWithSuccess_keepsId(b, rs, requestId, result) ==
    IF requestId # b.currentRequestId
    THEN [ret |-> FALSE, bridge |-> b, responses |-> rs]
    ELSE IF b.invokeConnection = NULL
    THEN [ret |-> FALSE, bridge |-> b, responses |-> rs]
    ELSE [ret |-> TRUE,
          bridge |-> [b EXCEPT !.invokeConnection = NULL,
                               !.currentFunctionName = NoName],
          responses |-> sendJson(rs, b.invokeConnection, 200,
                                 Body("result", IF result = "null" THEN "{}" ELSE result,
                                      NULL, NULL))]

\* completeWithSuccess without the comparison of the request id.
completeWithSuccess_anyId(b, rs, requestId, result) ==
    IF b.invokeConnection = NULL
    THEN [ret |-> FALSE, bridge |-> b, responses |-> rs]
    ELSE [ret |-> TRUE,
          bridge |-> [b EXCEPT !.invokeConnection = NULL,
                               !.currentRequestId = NULL,
                               !.currentFunctionName = NoName],
          responses |-> sendJson(rs, b.invokeConnection, 200,
                                 Body("result", IF result = "null" THEN "{}" ELSE result,
                                      NULL, NULL))]

\* completeWithSuccess that keeps the connection it has just written.
completeWithSuccess_keepsConnection(b, rs, requestId, result) ==
    IF requestId # b.currentRequestId
    THEN [ret |-> FALSE, bridge |-> b, responses |-> rs]
    ELSE IF b.invokeConnection = NULL
    THEN [ret |-> FALSE, bridge |-> b, responses |-> rs]
    ELSE [ret |-> TRUE,
          bridge |-> b,
          responses |-> sendJson(rs, b.invokeConnection, 200,
                                 Body("result", IF result = "null" THEN "{}" ELSE result,
                                      NULL, NULL))]

completeWithSuccess(b, rs, requestId, result) ==
    IF requestId # b.currentRequestId
    THEN [ret |-> FALSE, bridge |-> b, responses |-> rs]
    ELSE IF b.invokeConnection = NULL
    THEN [ret |-> FALSE, bridge |-> b, responses |-> rs]
    ELSE [ret |-> TRUE,
          bridge |-> [b EXCEPT !.invokeConnection = NULL,
                               !.currentRequestId = NULL,
                               !.currentFunctionName = NoName],
          responses |-> sendJson(rs, b.invokeConnection, 200,
                                 Body("result", IF result = "null" THEN "{}" ELSE result,
                                      NULL, NULL))]

\* completeWithError that also forgets the held next connection.
completeWithError_clearsNext(b, rs, requestId, error) ==
    IF requestId # b.currentRequestId
    THEN [ret |-> FALSE, bridge |-> b, responses |-> rs]
    ELSE IF b.invokeConnection = NULL
    THEN [ret |-> FALSE, bridge |-> b, responses |-> rs]
    ELSE [ret |-> TRUE,
          bridge |-> [b EXCEPT !.invokeConnection = NULL,
                               !.currentRequestId = NULL,
                               !.currentFunctionName = NoName,
                               !.nextConnection = NULL],
          responses |-> sendJson(rs, b.invokeConnection, 500,
                                 Body("handler-error", error, NULL, NULL))]

completeWithError(b, rs, requestId, error) ==
    IF requestId # b.currentRequestId
    THEN [ret |-> FALSE, bridge |-> b, responses |-> rs]
    ELSE IF b.invokeConnection = NULL
    THEN [ret |-> FALSE, bridge |-> b, responses |-> rs]
    ELSE [ret |-> TRUE,
          bridge |-> [b EXCEPT !.invokeConnection = NULL,
                               !.currentRequestId = NULL,
                               !.currentFunctionName = NoName],
          responses |-> sendJson(rs, b.invokeConnection, 500,
                                 Body("handler-error", error, NULL, NULL))]

isReady(b) == b.nextConnection # NULL /\ b.invokeConnection = NULL

hasActiveInvocation(b) == b.invokeConnection # NULL

getCurrentRequestId(b) == b.currentRequestId

isRuntimeConnected(b) == b.runtimeConnectedOnce /\ b.nextConnection # NULL

\* ------------------------------------------------------------------ init

ServerInit ==
    /\ bridge = [nextConnection |-> NULL, invokeConnection |-> NULL,
                 currentRequestId |-> NULL, currentFunctionName |-> NoName,
                 runtimeConnectedOnce |-> FALSE]
    /\ uuids = 0
    /\ responses = [r \in ResIds |-> NoResponse]
    /\ tasks = [r \in ResIds |-> NoTask]
    /\ sessions = [r \in ResIds |-> NoSession]

NoInvocation == [requestId |-> "", functionName |-> ""]

\* The runtime loop before its first iteration.
LoopIdle ==
    /\ lpc = "loop"
    /\ iter = 0
    /\ cur = NoInvocation
    /\ log = <<>>

\* A Map without entries, and a manifests directory without files.
EmptyMap == [n \in {} |-> NULL]

NoExecute == [name |-> NoName, called |-> NoName, ev |-> "none", value |-> NoName]

\* A variable that is not set in the process environment, and an environment
\* with nothing set.
Unset == "<unset>"

NoEnv == [NODE_ENV |-> Unset, AWS_LAMBDA_RUNTIME_API |-> Unset,
          BB_FUNCTIONS_PHASE |-> Unset]

NoManager == [environment |-> NoName, runtimeApi |-> NoName, phase |-> NoName]

\* No value thrown yet, and no RuntimeError made.
NoThrown == [type |-> "none"]

NoRuntimeError == [errorMessage |-> NoName, errorType |-> NoName, stackTrace |-> <<>>]

\* No SDK process: nothing registered, no EnvironmentManager built, no
\* entrypoint run.
SdkIdle ==
    /\ functions = EmptyMap
    /\ registered = <<>>
    /\ lastExecute = NoExecute
    /\ processEnv = NoEnv
    /\ manager = NoManager
    /\ source = <<>>
    /\ at = 0
    /\ dir = EmptyMap
    /\ runs = <<>>
    /\ clears = 0
    /\ manifests = EmptyMap
    /\ present = TRUE
    /\ spc = "ready"
    /\ thrown = NoThrown
    /\ formatted = NoRuntimeError

\* The dev server on its own: no runtime loop runs in this process.
Init ==
    /\ ServerInit
    /\ LoopIdle
    /\ SdkIdle
    /\ environment = "local"

\* ------------------------------------------------------ request parsing

\* requestParser.parseJsonBody: an empty body is {}, a body that is not JSON
\* rejects with Error("Invalid JSON body").
parseJsonBody(body) ==
    IF body = "garbage"
    THEN [ok |-> FALSE, value |-> "Invalid JSON body"]
    ELSE [ok |-> TRUE, value |-> IF body = "" THEN "{}" ELSE body]

\* invokeSchema.parse: an object with optional functionName, params and context.
invokeSchema(value) ==
    IF value \in {"null", "{\"context\":5}"}
    THEN [ok |-> FALSE, functionName |-> ""]
    ELSE [ok |-> TRUE,
          functionName |-> IF value = "{\"functionName\":\"echo\"}" THEN "echo" ELSE ""]

\* RuntimeError.parse: errorMessage, errorType and stackTrace are all required.
RuntimeError(value) ==
    IF value = "{\"errorMessage\":\"boom\",\"errorType\":\"Error\",\"stackTrace\":[]}"
    THEN [ok |-> TRUE, errorMessage |-> "boom"]
    ELSE [ok |-> FALSE, errorMessage |-> ""]

\* ------------------------------------------------------------- handlers

\* The ServerResponse of the request of one kind that arrives now, if the bound
\* allows one more.
Fresh(ids) == {r \in ids : /\ responses[r].kind = "none"
                           /\ \A q \in ids : q < r => responses[q].kind # "none"}

Accept(r, kind) == [responses EXCEPT ![r].kind = kind]

\* GET /2018-06-01/runtime/invocation/next
handleInvocationNext ==
    \E res \in Fresh(NextIds) :
        /\ LET h == holdNextConnection(bridge, Accept(res, "next"), res)
           IN /\ bridge' = h.bridge
              /\ responses' = h.responses
        /\ tasks' = [tasks EXCEPT ![res].pc = "held"]
        /\ UNCHANGED <<uuids, sessions>>
        /\ UNCHANGED <<loopVars, sdkVars>>

\* POST /v1/functions/:name/invoke, up to the await of the request body.
handleFunctionInvoke(functionName) ==
    \E res \in Fresh(InvokeIds) :
        /\ responses' = Accept(res, "invoke")
        /\ tasks' = [tasks EXCEPT ![res] = [pc |-> "parsing", fn |-> functionName,
                                            rid |-> NULL, busy |-> FALSE]]
        /\ UNCHANGED <<bridge, uuids, sessions>>
        /\ UNCHANGED <<loopVars, sdkVars>>

\* ... from the parsed body to the await of createSession.
handleFunctionInvokeParsed(r, body) ==
    /\ responses[r].kind = "invoke"
    /\ tasks[r].pc = "parsing"
    /\ LET parsed == parseJsonBody(body)
           validatedData == invokeSchema(parsed.value)
           finalFunctionName == IF tasks[r].fn # "" THEN tasks[r].fn
                                ELSE validatedData.functionName
       IN IF ~parsed.ok
          THEN /\ responses' = sendInternalError(responses, r, "An internal error occurred")
               /\ tasks' = [tasks EXCEPT ![r].pc = "done"]
          ELSE IF ~validatedData.ok
          THEN /\ responses' = sendBadRequest(responses, r, "Invalid request body")
               /\ tasks' = [tasks EXCEPT ![r].pc = "done"]
          ELSE IF finalFunctionName = ""
          THEN /\ responses' = sendBadRequest(responses, r, "Function name is required")
               /\ tasks' = [tasks EXCEPT ![r].pc = "done"]
          ELSE IF finalFunctionName \notin ManifestNames
          THEN /\ responses' = sendNotFound(responses, r, "not found in registry")
               /\ tasks' = [tasks EXCEPT ![r].pc = "done"]
          ELSE /\ responses' = responses
               /\ tasks' = [tasks EXCEPT ![r].pc = "creating",
                                         ![r].fn = finalFunctionName]
    /\ UNCHANGED <<bridge, uuids, sessions>>
    /\ UNCHANGED <<loopVars, sdkVars>>

\* The same step with a handler that, when createSession fails, still asks the
\* browser manager to close a session.
handleFunctionInvokeSession_closesOnFailure(r, created) ==
    /\ tasks[r].pc = "creating"
    /\ IF ~created
       THEN /\ responses' = sendInternalError(responses, r,
                                              "Failed to create browser session")
            /\ tasks' = [tasks EXCEPT ![r].pc = "done"]
            /\ sessions' = [sessions EXCEPT ![r].closeCalls = @ + 1]
            /\ UNCHANGED <<bridge, uuids>>
       ELSE LET t == triggerInvocation(bridge, responses, uuids, tasks[r].fn, r, r)
            IN /\ bridge' = t.bridge
               /\ responses' = t.responses
               /\ uuids' = t.uuids
               /\ IF t.ret
                  THEN /\ tasks' = [tasks EXCEPT ![r].pc = "held"]
                       /\ sessions' = [sessions EXCEPT ![r].created = TRUE]
                  ELSE /\ tasks' = [tasks EXCEPT ![r].pc = "cleaning",
                                                 ![r].busy = hasActiveInvocation(bridge)]
                       /\ sessions' = [sessions EXCEPT ![r].created = TRUE,
                                                       ![r].closeCalls = @ + 1]
    /\ UNCHANGED <<loopVars, sdkVars>>

\* The same step with a handler that does not release the session of a refused
\* invocation.
handleFunctionInvokeSession_leaksOnRefusal(r, created) ==
    /\ tasks[r].pc = "creating"
    /\ IF ~created
       THEN /\ responses' = sendInternalError(responses, r,
                                              "Failed to create browser session")
            /\ tasks' = [tasks EXCEPT ![r].pc = "done"]
            /\ UNCHANGED <<bridge, uuids, sessions>>
       ELSE LET t == triggerInvocation(bridge, responses, uuids, tasks[r].fn, r, r)
            IN /\ bridge' = t.bridge
               /\ responses' = t.responses
               /\ uuids' = t.uuids
               /\ IF t.ret
                  THEN /\ tasks' = [tasks EXCEPT ![r].pc = "held"]
                       /\ sessions' = [sessions EXCEPT ![r].created = TRUE]
                  ELSE /\ tasks' = [tasks EXCEPT ![r].pc = "cleaning",
                                                 ![r].busy = hasActiveInvocation(bridge)]
                       /\ sessions' = [sessions EXCEPT ![r].created = TRUE]
    /\ UNCHANGED <<loopVars, sdkVars>>

\* ... from the outcome of createSession to the return (trigger succeeded) or
\* to the await of cleanupSession (trigger failed).
handleFunctionInvokeSession(r, created) ==
    /\ tasks[r].pc = "creating"
    /\ IF ~created
       THEN /\ responses' = sendInternalError(responses, r,
                                              "Failed to create browser session")
            /\ tasks' = [tasks EXCEPT ![r].pc = "done"]
            /\ UNCHANGED <<bridge, uuids, sessions>>
       ELSE LET t == triggerInvocation(bridge, responses, uuids, tasks[r].fn, r, r)
            IN /\ bridge' = t.bridge
               /\ responses' = t.responses
               /\ uuids' = t.uuids
               /\ IF t.ret
                  THEN /\ tasks' = [tasks EXCEPT ![r].pc = "held"]
                       /\ sessions' = [sessions EXCEPT ![r].created = TRUE]
                  ELSE /\ tasks' = [tasks EXCEPT ![r].pc = "cleaning",
                                                 ![r].busy = hasActiveInvocation(bridge)]
                       /\ sessions' = [sessions EXCEPT ![r].created = TRUE,
                                                       ![r].closeCalls = @ + 1]
    /\ UNCHANGED <<loopVars, sdkVars>>

\* The same step with a cleanupSession that does not swallow a closeSession
\* failure: the rejection reaches handleFunctionInvoke's catch.
handleFunctionInvokeCleaned_propagates(r, closed) ==
    /\ tasks[r].pc = "cleaning"
    /\ responses' = IF closed
                    THEN sendServiceUnavailable(responses, r,
                             IF hasActiveInvocation(bridge)
                             THEN "Another invocation is in progress"
                             ELSE "No runtime connected")
                    ELSE sendInternalError(responses, r, "An internal error occurred")
    /\ tasks' = [tasks EXCEPT ![r].pc = "done"]
    /\ UNCHANGED <<bridge, uuids, sessions>>
    /\ UNCHANGED <<loopVars, sdkVars>>

\* ... from the outcome of closeSession (a failure is logged and swallowed by
\* cleanupSession) to the 503.
handleFunctionInvokeCleaned(r, closed) ==
    /\ tasks[r].pc = "cleaning"
    /\ responses' = sendServiceUnavailable(responses, r,
                        IF hasActiveInvocation(bridge)
                        THEN "Another invocation is in progress"
                        ELSE "No runtime connected")
    /\ tasks' = [tasks EXCEPT ![r].pc = "done"]
    /\ UNCHANGED <<bridge, uuids, sessions>>
    /\ UNCHANGED <<loopVars, sdkVars>>

\* POST .../invocation/:requestId/response, up to the await of the body.
handleInvocationResponse(requestId) ==
    \E res \in Fresh(OutcomeIds) :
        /\ responses' = Accept(res, "response")
        /\ tasks' = [tasks EXCEPT ![res] = [pc |-> "parsing", fn |-> NoName,
                                            rid |-> requestId, busy |-> FALSE]]
        /\ UNCHANGED <<bridge, uuids, sessions>>
        /\ UNCHANGED <<loopVars, sdkVars>>

\* ... from the parsed body to the answer.
handleInvocationResponseParsed(r, raw) ==
    /\ responses[r].kind = "response"
    /\ tasks[r].pc = "parsing"
    /\ LET body == parseJsonBody(raw)
           c == completeWithSuccess(bridge, responses, tasks[r].rid, body.value)
       IN IF ~body.ok
          THEN /\ responses' = sendInternalError(responses, r, "An internal error occurred")
               /\ bridge' = bridge
          ELSE /\ bridge' = c.bridge
               /\ responses' = IF ~c.ret
                               THEN sendBadRequest(c.responses, r,
                                        "No matching invocation or request ID mismatch")
                               ELSE sendAccepted(c.responses, r)
    /\ tasks' = [tasks EXCEPT ![r].pc = "done"]
    /\ UNCHANGED <<uuids, sessions>>
    /\ UNCHANGED <<loopVars, sdkVars>>

\* POST .../invocation/:requestId/error, up to the await of the body.
handleInvocationError(requestId) ==
    \E res \in Fresh(OutcomeIds) :
        /\ responses' = Accept(res, "error")
        /\ tasks' = [tasks EXCEPT ![res] = [pc |-> "parsing", fn |-> NoName,
                                            rid |-> requestId, busy |-> FALSE]]
        /\ UNCHANGED <<bridge, uuids, sessions>>
        /\ UNCHANGED <<loopVars, sdkVars>>

\* ... from the parsed and validated body to the answer.
handleInvocationErrorParsed(r, raw) ==
    /\ responses[r].kind = "error"
    /\ tasks[r].pc = "parsing"
    /\ LET body == parseJsonBody(raw)
           validatedError == RuntimeError(body.value)
           c == completeWithError(bridge, responses, tasks[r].rid,
                                  validatedError.errorMessage)
       IN IF ~body.ok
          THEN /\ responses' = sendInternalError(responses, r, "An internal error occurred")
               /\ bridge' = bridge
          ELSE IF ~validatedError.ok
          THEN /\ responses' = sendBadRequest(responses, r, "Invalid error format")
               /\ bridge' = bridge
          ELSE /\ bridge' = c.bridge
               /\ responses' = IF ~c.ret
                               THEN sendBadRequest(c.responses, r,
                                        "No matching invocation or request ID mismatch")
                               ELSE sendAccepted(c.responses, r)
    /\ tasks' = [tasks EXCEPT ![r].pc = "done"]
    /\ UNCHANGED <<uuids, sessions>>
    /\ UNCHANGED <<loopVars, sdkVars>>

\* The peer of a connection the bridge holds goes away before an answer was
\* written.  Neither the bridge nor the handlers register a 'close' listener, so
\* no code runs and nothing reads the flag.
connectionClosed(r) ==
    /\ responses[r].kind \in {"next", "invoke"}
    /\ tasks[r].pc = "held"
    /\ responses[r].writes = <<>>
    /\ ~responses[r].closed
    /\ responses' = [responses EXCEPT ![r].closed = TRUE]
    /\ UNCHANGED <<bridge, uuids, tasks, sessions>>
    /\ UNCHANGED <<loopVars, sdkVars>>

Next ==
    \/ handleInvocationNext
    \/ \E functionName \in FunctionNames : handleFunctionInvoke(functionName)
    \/ \E r \in ResIds, body \in InvokeBodies : handleFunctionInvokeParsed(r, body)
    \/ \E r \in ResIds, created \in BOOLEAN : handleFunctionInvokeSession(r, created)
    \/ \E r \in ResIds, closed \in BOOLEAN : handleFunctionInvokeCleaned(r, closed)
    \/ \E requestId \in RequestIds : handleInvocationResponse(requestId)
    \/ \E r \in ResIds, raw \in ResultBodies : handleInvocationResponseParsed(r, raw)
    \/ \E requestId \in RequestIds : handleInvocationError(requestId)
    \/ \E r \in ResIds, raw \in ErrorBodies : handleInvocationErrorParsed(r, raw)

Spec == Init /\ [][Next]_vars

\* The same server under Node's scheduling: a handler that is waiting for a
\* body, for createSession or for closeSession is resumed, and a request that
\* can still arrive does.
SpecFair == Spec /\ WF_vars(Next)

\* handleRequest for a request that matches no handler route: the preflight
\* answer for OPTIONS, the 404 for unknown routes for everything else.
handleRequest(method, path) ==
    /\ <<method, path>> \in OtherRequests
    /\ \E res \in Fresh(OtherIds) :
          /\ responses' =
                 IF method = "OPTIONS"
                 THEN sendJson(Accept(res, "other"), res, 200, Body("", "", NULL, NULL))
                 ELSE sendJson(Accept(res, "other"), res, 404,
                               Body("Not found", "", NULL, NULL))
          /\ tasks' = [tasks EXCEPT ![res].pc = "done"]
    /\ UNCHANGED <<bridge, uuids, sessions>>
    /\ UNCHANGED <<loopVars, sdkVars>>

\* The whole router: the handler routes and every other request.
NextRoutes ==
    \/ Next
    \/ \E request \in OtherRequests : handleRequest(request[1], request[2])

SpecRoutes == Init /\ [][NextRoutes]_vars

\* ------------------------------------------------ the router, from req.url

\* A request target as the characters of req.url, grouped: "/", "?" and "#"
\* stand for themselves, every other element is a run of other characters.
NextUrl == <<"/", "2018-06-01", "/", "runtime", "/", "invocation", "/", "next">>

InvokeUrl(name) == <<"/", "v1", "/", "functions", "/", name, "/", "invoke">>

OutcomeUrl(id, kind) ==
    <<"/", "2018-06-01", "/", "runtime", "/", "invocation", "/", id, "/", kind>>

\* req.url where the request has none.
UndefinedUrl == <<"<undefined>">>

Methods == {"GET", "POST", "DELETE", "OPTIONS"}

Urls ==
    {NextUrl, NextUrl \o <<"?", "a=1">>, NextUrl \o <<"#", "fragment">>, NextUrl \o <<"/">>,
     InvokeUrl("echo"), InvokeUrl("ghost") \o <<"?", "a=1", "#", "fragment">>,
     <<"/", "v1", "/", "functions", "/", "/", "invoke">>,
     OutcomeUrl("1", "response"), OutcomeUrl("2", "response") \o <<"?", "a=1">>,
     OutcomeUrl("1", "error"), OutcomeUrl("2", "error") \o <<"#", "fragment">>,
     OutcomeUrl("1", "other"),
     <<>>, UndefinedUrl, <<"/">>, <<"/", "unknown", "/", "route">>,
     <<"/", "/">>, <<"/", "/">> \o Tail(InvokeUrl("echo"))}

\* The IRequestHandlers handleRequest is given: DevServerHandlers, or handlers
\* that throw when called.
HandlerImpls == {"DevServerHandlers", "throwing"}

\* The request id of a path parameter, as the bridge's ids are written here.
RequestIdOf(param) == IF param = "1" THEN 1 ELSE 2

\* s without its leading "/" elements.
RECURSIVE dropSlashes(_)
dropSlashes(s) == IF s # <<>> /\ Head(s) = "/" THEN dropSlashes(Tail(s)) ELSE s

\* s up to its first "?" or "#".
RECURSIVE upToQuery(_)
upToQuery(s) ==
    IF s = <<>> \/ Head(s) \in {"?", "#"} THEN <<>> ELSE <<Head(s)>> \o upToQuery(Tail(s))

\* new URL(url, `http://${host}`).pathname: a target that begins with two
\* slashes names its own host, and the constructor throws where that host is
\* empty; the path ends at the query string or fragment and is "/" if empty.
URL(url) ==
    LET rest == dropSlashes(url)
        ownHost == Len(url) >= 2 /\ url[1] = "/" /\ url[2] = "/"
        path == upToQuery(IF ownHost THEN Tail(rest) ELSE url)
    IN  IF ownHost /\ (rest = <<>> \/ Head(rest) \in {"?", "#"})
        THEN [ok |-> FALSE, pathname |-> <<>>]
        ELSE [ok |-> TRUE, pathname |-> IF path = <<>> THEN <<"/">> ELSE path]

\* path.match(/^\/v1\/functions\/([^/]+)\/invoke$/)
invokeMatch(path) ==
    IF Len(path) = 8 /\ path[6] # "/" /\ path = InvokeUrl(path[6])
    THEN <<path, path[6]>> ELSE <<>>

\* path.match(/^\/2018-06-01\/runtime\/invocation\/([^/]+)\/response$/)
responseMatch(path) ==
    IF Len(path) = 10 /\ path[8] # "/" /\ path = OutcomeUrl(path[8], "response")
    THEN <<path, path[8]>> ELSE <<>>

\* path.match(/^\/2018-06-01\/runtime\/invocation\/([^/]+)\/error$/)
errorMatch(path) ==
    IF Len(path) = 10 /\ path[8] # "/" /\ path = OutcomeUrl(path[8], "error")
    THEN <<path, path[8]>> ELSE <<>>

\* What handleRequest does with a request: the URL is parsed before the try,
\* OPTIONS is answered before any route is looked at, then the first route
\* that matches.
route(method, url) ==
    LET u == URL(IF url = UndefinedUrl THEN <<>> ELSE url)
        path == u.pathname
    IN  IF ~u.ok THEN [to |-> "TypeError", param |-> ""]
        ELSE IF method = "OPTIONS" THEN [to |-> "preflight", param |-> ""]
        ELSE IF method = "GET" /\ path = NextUrl
        THEN [to |-> "handleInvocationNext", param |-> ""]
        ELSE IF method = "POST" /\ invokeMatch(path) # <<>>
        THEN [to |-> "handleFunctionInvoke", param |-> invokeMatch(path)[2]]
        ELSE IF method = "POST" /\ responseMatch(path) # <<>>
        THEN [to |-> "handleInvocationResponse", param |-> responseMatch(path)[2]]
        ELSE IF method = "POST" /\ errorMatch(path) # <<>>
        THEN [to |-> "handleInvocationError", param |-> errorMatch(path)[2]]
        ELSE [to |-> "404", param |-> ""]

\* handleRequest answers the request itself, or, where new URL threw, not at
\* all: the rejection of handleRequest is handled by nobody.
answer(statusCode, error) ==
    /\ \E res \in Fresh(OtherIds) :
          /\ responses' =
                 IF statusCode = NULL THEN Accept(res, "other")
                 ELSE sendJson(Accept(res, "other"), res, statusCode,
                               Body(error, "", NULL, NULL))
          /\ tasks' = [tasks EXCEPT ![res].pc = "done"]
    /\ UNCHANGED <<bridge, uuids, sessions>>
    /\ UNCHANGED <<loopVars, sdkVars>>

\* handleRequest(req, res, deps) for req.method, req.url and deps.handlers.
handleRequestOf(method, url, handlers) ==
    LET r == route(method, url)
        routed == r.to \notin {"TypeError", "preflight", "404"}
    IN  \/ r.to = "TypeError" /\ answer(NULL, "")
        \/ r.to = "preflight" /\ answer(200, "")
        \/ r.to = "404" /\ answer(404, "Not found")
        \/ routed /\ handlers = "throwing" /\ answer(500, "Internal server error")
        \/ /\ handlers = "DevServerHandlers"
           /\ \/ r.to = "handleInvocationNext" /\ handleInvocationNext
              \/ r.to = "handleFunctionInvoke" /\ handleFunctionInvoke(r.param)
              \/ /\ r.to = "handleInvocationResponse"
                 /\ handleInvocationResponse(RequestIdOf(r.param))
              \/ /\ r.to = "handleInvocationError"
                 /\ handleInvocationError(RequestIdOf(r.param))

\* How many requests are followed from handleRequest to their answers.
MaxRequests == 2

\* The server with its requests arriving through handleRequest.
NextRouter ==
    \/ \E method \in Methods, url \in Urls, handlers \in HandlerImpls :
           /\ Cardinality({r \in ResIds : responses[r].kind # "none"}) < MaxRequests
           /\ handleRequestOf(method, url, handlers)
    \/ \E r \in ResIds, body \in InvokeBodies : handleFunctionInvokeParsed(r, body)
    \/ \E r \in ResIds, created \in BOOLEAN : handleFunctionInvokeSession(r, created)
    \/ \E r \in ResIds, closed \in BOOLEAN : handleFunctionInvokeCleaned(r, closed)
    \/ \E r \in ResIds, raw \in ResultBodies : handleInvocationResponseParsed(r, raw)
    \/ \E r \in ResIds, raw \in ErrorBodies : handleInvocationErrorParsed(r, raw)

SpecRouter == Init /\ [][NextRouter]_vars

\* The same server, with peers that may drop a held connection.
NextClose ==
    \/ Next
    \/ \E r \in ResIds : connectionClosed(r)

SpecClose == Init /\ [][NextClose]_vars

\* ---------------------------------------------------------- runtime loop

\* How many iterations of runInvocationLoop's while (true) are followed.
MaxIterations == 2

\* The environment argument: NODE_ENV as EnvironmentManager reports it (its
\* default, "production", or another value verbatim), or "undefined" where a
\* caller leaves the argument out.
Environments == {"local", "production", "development", "undefined"}

\* The names FunctionRegistry holds, and the names an event may carry.
RegistryNames == {"echo"}

EventNames == {"echo", "ghost"}

EventRequestIds == {"a", "b"}

\* What a user handler may throw, and what it may return.
ThrownValues == {"Error: boom", "oops", "undefined"}

HandlerResults == {"{}", "undefined"}

\* The IRuntimeClient methods that return promises.
ClientOps ==
    {"waitForNextInvocation", "executeFunction", "handleSuccess", "handleFailure"}

Entry(ev, op, it, requestId, arg) ==
    [ev |-> ev, op |-> op, iter |-> it, requestId |-> requestId, arg |-> arg]

\* The call at position i of l has resolved or rejected.
Settled(l, i) ==
    \E j \in DOMAIN l :
        /\ j > i
        /\ l[j].ev \in {"resolved", "rejected"}
        /\ l[j].op = l[i].op
        /\ l[j].iter = l[i].iter

\* The promises of l that have not settled yet.
Pending(l) ==
    {i \in DOMAIN l : l[i].ev = "call" /\ l[i].op \in ClientOps /\ ~Settled(l, i)}

\* A lookup that finds a definition for every name.
getFunctionDefinitionByName_any(functionName) == TRUE

getFunctionDefinitionByName(functionName) == functionName \in RegistryNames

catchSystemError_always(env, l, it, requestId, error) ==
    [lpc |-> "exited",
     log |-> Append(l, Entry("call", "handleProductionFailure", it, requestId, error))]

\* The outer catch: the fatal handler runs in production only, and the one
\* index.ts passes exits the process.
catchSystemError(env, l, it, requestId, error) ==
    IF env = "production"
    THEN [lpc |-> "exited",
          log |-> Append(l, Entry("call", "handleProductionFailure", it, requestId, error))]
    ELSE [lpc |-> "loop", log |-> l]

catchUserError_noAwait(l, it, requestId, error) ==
    [lpc |-> "loop",
     log |-> Append(l, Entry("call", "handleFailure", it, requestId, error))]

catchUserError_fallsThrough(l, it, requestId, error) ==
    [lpc |-> "handleSuccess",
     log |-> Append(l, Entry("call", "handleSuccess", it, requestId, error))]

\* The inner catch: await runtimeClient.handleFailure(requestId, error).
catchUserError(l, it, requestId, error) ==
    [lpc |-> "handleFailure",
     log |-> Append(l, Entry("call", "handleFailure", it, requestId, error))]

LoopInit ==
    /\ ServerInit
    /\ LoopIdle
    /\ SdkIdle
    /\ environment \in Environments

\* while (true): the next waitForAndHandleInvocation calls waitForNextInvocation.
runInvocationLoop ==
    /\ lpc = "loop"
    /\ iter < MaxIterations
    /\ iter' = iter + 1
    /\ cur' = NoInvocation
    /\ lpc' = "waitForNextInvocation"
    /\ log' = Append(log, Entry("call", "waitForNextInvocation", iter + 1, "", ""))
    /\ UNCHANGED <<environment, serverVars, sdkVars>>

\* waitForNextInvocation resolves with { requestId, event }.
waitForNextInvocationResolves(requestId, functionName) ==
    /\ lpc = "waitForNextInvocation"
    /\ \E i \in Pending(log) : log[i].op = "waitForNextInvocation" /\ log[i].iter = iter
    /\ LET l1 == Append(log, Entry("resolved", "waitForNextInvocation", iter,
                                   requestId, functionName))
           c == catchSystemError(environment, l1, iter, requestId,
                                 "Function not found in registry")
       IN  /\ cur' = [requestId |-> requestId, functionName |-> functionName]
           /\ IF getFunctionDefinitionByName(functionName)
              THEN /\ lpc' = "executeFunction"
                   /\ log' = Append(l1, Entry("call", "executeFunction", iter,
                                              requestId, functionName))
              ELSE /\ lpc' = c.lpc
                   /\ log' = c.log
    /\ UNCHANGED <<environment, iter, serverVars, sdkVars>>

\* waitForNextInvocation rejects: the poll failed or the event did not parse.
waitForNextInvocationRejects(error) ==
    /\ lpc = "waitForNextInvocation"
    /\ \E i \in Pending(log) : log[i].op = "waitForNextInvocation" /\ log[i].iter = iter
    /\ LET l1 == Append(log, Entry("rejected", "waitForNextInvocation", iter, "", error))
           c == catchSystemError(environment, l1, iter, "", error)
       IN  /\ lpc' = c.lpc
           /\ log' = c.log
    /\ UNCHANGED <<environment, iter, cur, serverVars, sdkVars>>

\* executeFunction resolves: await runtimeClient.handleSuccess(requestId, result).
executeFunctionResolves(result) ==
    /\ lpc = "executeFunction"
    /\ \E i \in Pending(log) : log[i].op = "executeFunction" /\ log[i].iter = iter
    /\ lpc' = "handleSuccess"
    /\ log' = log \o <<Entry("resolved", "executeFunction", iter, cur.requestId, result),
                       Entry("call", "handleSuccess", iter, cur.requestId, result)>>
    /\ UNCHANGED <<environment, iter, cur, serverVars, sdkVars>>

\* executeFunction rejects: the inner catch.
executeFunctionRejects(error) ==
    /\ lpc = "executeFunction"
    /\ \E i \in Pending(log) : log[i].op = "executeFunction" /\ log[i].iter = iter
    /\ LET l1 == Append(log, Entry("rejected", "executeFunction", iter,
                                   cur.requestId, error))
           c == catchUserError(l1, iter, cur.requestId, error)
       IN  /\ lpc' = c.lpc
           /\ log' = c.log
    /\ UNCHANGED <<environment, iter, cur, serverVars, sdkVars>>

\* A pending outcome POST (handleSuccess or handleFailure) settles.  The loop
\* goes on from it where it awaits it: a resolution ends the iteration, a
\* rejection lands in the outer catch.
outcomeSettles(op, ok) ==
    /\ op \in {"handleSuccess", "handleFailure"}
    /\ \E i \in Pending(log) :
         /\ log[i].op = op
         /\ LET error == IF op = "handleSuccess" THEN "PostResultError"
                                                 ELSE "PostErrorError"
                l1 == Append(log, Entry(IF ok THEN "resolved" ELSE "rejected", op,
                                        log[i].iter, log[i].requestId,
                                        IF ok THEN "" ELSE error))
                c == catchSystemError(environment, l1, log[i].iter,
                                      log[i].requestId, error)
            IN  IF lpc = op /\ log[i].iter = iter
                THEN IF ok
                     THEN lpc' = "loop" /\ log' = l1
                     ELSE lpc' = c.lpc /\ log' = c.log
                ELSE lpc' = lpc /\ log' = l1
    /\ UNCHANGED <<environment, iter, cur, serverVars, sdkVars>>

handleSuccessSettles(ok) == outcomeSettles("handleSuccess", ok)

handleFailureSettles(ok) == outcomeSettles("handleFailure", ok)

NextLoop ==
    \/ runInvocationLoop
    \/ \E requestId \in EventRequestIds, functionName \in EventNames :
           waitForNextInvocationResolves(requestId, functionName)
    \/ \E error \in {"GetNextInvocationError", "Failed to parse event"} :
           waitForNextInvocationRejects(error)
    \/ \E result \in HandlerResults : executeFunctionResolves(result)
    \/ \E error \in ThrownValues : executeFunctionRejects(error)
    \/ \E ok \in BOOLEAN : handleSuccessSettles(ok)
    \/ \E ok \in BOOLEAN : handleFailureSettles(ok)

SpecLoop == LoopInit /\ [][NextLoop]_vars

\* ------------------------------------------------------- function registry

\* How many register calls are followed.
MaxRegister == 3

\* Names, handlers and configs given to register; names differ by case too.
RegisterNames == {"echo", "Echo", "double"}

\* Names looked up or executed: the above and one that is never registered.
LookupNames == RegisterNames \cup {"nonExistent"}

Handlers == {"h1", "h2"}

Configs == {"{}", "{sessionConfig}"}

\* What a handler does when called: resolve with a value or throw one.
HandlerBehaviours ==
    {[ev |-> "resolved", value |-> "{\"y\":2}"],
     [ev |-> "resolved", value |-> "undefined"],
     [ev |-> "rejected", value |-> "Error: Handler error"],
     [ev |-> "rejected", value |-> "oops"]}

register_keepsFirst(f, name, handler, config) ==
    IF name \in DOMAIN f
    THEN f
    ELSE [n \in DOMAIN f \cup {name} |->
             IF n = name THEN [name |-> name, handler |-> handler, config |-> config]
                         ELSE f[n]]

\* this._functions.set(name, { name, handler, config })
register(f, name, handler, config) ==
    [n \in DOMAIN f \cup {name} |->
        IF n = name THEN [name |-> name, handler |-> handler, config |-> config]
                    ELSE f[n]]

\* this._functions.get(name) ?? null
getByName(f, name) ==
    IF name \in DOMAIN f THEN f[name]
    ELSE [name |-> NoName, handler |-> NoName, config |-> NoName]

size(f) == Cardinality(DOMAIN f)

execute_wrapsError(f, name, behaviour) ==
    IF name \notin DOMAIN f
    THEN [name |-> name, called |-> NoName, ev |-> "rejected",
          value |-> "FunctionNotFoundInRegistryError"]
    ELSE [name |-> name, called |-> f[name].handler, ev |-> behaviour.ev,
          value |-> IF behaviour.ev = "rejected" THEN "Error: execution failed"
                                                 ELSE behaviour.value]

\* execute: the handler found under name is awaited and its outcome is the
\* outcome of execute; without one, FunctionNotFoundInRegistryError.
execute(f, name, behaviour) ==
    IF name \notin DOMAIN f
    THEN [name |-> name, called |-> NoName, ev |-> "rejected",
          value |-> "FunctionNotFoundInRegistryError"]
    ELSE [name |-> name, called |-> f[name].handler, ev |-> behaviour.ev,
          value |-> behaviour.value]

\* A fresh registry, as `new FunctionRegistry()` makes it.
RegistryInit ==
    /\ ServerInit
    /\ LoopIdle
    /\ environment = "local"
    /\ SdkIdle

\* registry.register(name, handler, config)
registryRegister(name, handler, config) ==
    /\ Len(registered) < MaxRegister
    /\ functions' = register(functions, name, handler, config)
    /\ registered' = Append(registered,
                            [name |-> name, handler |-> handler, config |-> config])
    /\ UNCHANGED <<lastExecute, processEnv, manager, source, at, dir, runs, clears>>
    /\ UNCHANGED <<serverVars, loopVars, errorVars, storeVars>>

\* await registry.execute(name, params, context), with a handler that behaves
\* as given.
registryExecute(name, behaviour) ==
    /\ lastExecute' = execute(functions, name, behaviour)
    /\ UNCHANGED <<functions, registered, processEnv, manager, source, at, dir, runs, clears>>
    /\ UNCHANGED <<serverVars, loopVars, errorVars, storeVars>>

NextRegistry ==
    \/ \E name \in RegisterNames, handler \in Handlers, config \in Configs :
           registryRegister(name, handler, config)
    \/ \E name \in LookupNames, behaviour \in HandlerBehaviours :
           registryExecute(name, behaviour)

SpecRegistry == RegistryInit /\ [][NextRegistry]_vars

\* ---- execute, with the params it is given

\* A config with a parametersSchema (an object with a number `data`), params
\* that conform to that schema and params that do not.
SchemaConfig == "{parametersSchema}"

ParamsGiven == {"{\"data\":2}", "{\"data\":\"two\"}", "{}"}

\* schema.safeParse(params).success for that schema.
conforms(params) == params = "{\"data\":2}"

\* await registry.execute(name, params, context): the params go to the handler
\* as they are, the config of the definition is not read.
registryExecuteParams(name, params, behaviour) ==
    /\ lastExecute' = [p \in {"params"} |-> params] @@ execute(functions, name, behaviour)
    /\ UNCHANGED <<functions, registered, processEnv, manager, source, at, dir, runs, clears>>
    /\ UNCHANGED <<serverVars, loopVars, errorVars, storeVars>>

NextParams ==
    \/ \E name \in RegisterNames, handler \in Handlers, config \in Configs \cup {SchemaConfig} :
           registryRegister(name, handler, config)
    \/ \E name \in LookupNames, params \in ParamsGiven, behaviour \in HandlerBehaviours :
           registryExecuteParams(name, params, behaviour)

SpecParams == RegistryInit /\ [][NextParams]_vars

\* ----------------------------------------------------- environment manager

\* Process environments: each variable unset, empty or set.
ProcessEnvs ==
    [NODE_ENV : {Unset, "", "local", "production", "staging"},
     AWS_LAMBDA_RUNTIME_API : {Unset, "", "localhost:3000"},
     BB_FUNCTIONS_PHASE : {Unset, "", "runtime", "introspect"}]

\* const val = env[key]; if (!val) return dflt; return val
getOrDefault(env, key, dflt) ==
    IF env[key] = Unset \/ env[key] = "" THEN dflt ELSE env[key]

\* new EnvironmentManager(processEnv)
EnvironmentManager(env) ==
    [environment |-> getOrDefault(env, "NODE_ENV", "local"),
     runtimeApi |-> getOrDefault(env, "AWS_LAMBDA_RUNTIME_API", "127.0.0.1:9001"),
     phase |-> getOrDefault(env, "BB_FUNCTIONS_PHASE", "runtime")]

\* A getter that reads the process environment each time it is called.
get_environment_live(m) == getOrDefault(processEnv, "NODE_ENV", "local")

\* get environment(), get runtimeApi(), get phase(): the private fields.
get_environment(m) == m.environment

get_runtimeApi(m) == m.runtimeApi

get_phase(m) == m.phase

EnvInit ==
    /\ ServerInit
    /\ LoopIdle
    /\ environment = "local"
    /\ functions = EmptyMap
    /\ registered = <<>>
    /\ lastExecute = NoExecute
    /\ processEnv \in ProcessEnvs
    /\ manager = NoManager
    /\ source = <<>>
    /\ at = 0
    /\ dir = EmptyMap
    /\ runs = <<>>
    /\ clears = 0
    /\ manifests = EmptyMap
    /\ present = TRUE
    /\ spc = "ready"
    /\ thrown = NoThrown
    /\ formatted = NoRuntimeError

\* environmentManager = new EnvironmentManager(process.env)
newEnvironmentManager ==
    /\ manager = NoManager
    /\ manager' = EnvironmentManager(processEnv)
    /\ UNCHANGED <<functions, registered, lastExecute, processEnv, source, at, dir, runs, clears>>
    /\ UNCHANGED <<serverVars, loopVars, errorVars, storeVars>>

\* The process environment changes after the manager was built; the manager
\* has no setter and reads the environment in its constructor only.
setProcessEnv(env) ==
    /\ manager # NoManager
    /\ env # processEnv
    /\ processEnv' = env
    /\ UNCHANGED <<functions, registered, lastExecute, manager, source, at, dir, runs, clears>>
    /\ UNCHANGED <<serverVars, loopVars, errorVars, storeVars>>

NextEnv ==
    \/ newEnvironmentManager
    \/ \E env \in ProcessEnvs : setProcessEnv(env)

SpecEnv == EnvInit /\ [][NextEnv]_vars

\* ------------------------------------------------------ manifest emitter

\* How many defineFn calls an entrypoint makes at most, and how many times
\* the entrypoint is run.
MaxDefine == 2

MaxRuns == 2

\* The defineFn calls an entrypoint may make.
DefineCalls == [name : {"echo", "double"}, handler : {"h1"}, config : Configs]

Sources == UNION {[1..n -> DefineCalls] : n \in 0..MaxDefine}

\* `${manifest.name}.json`
ManifestFile(name) == name \o ".json"

\* buildPersistedFunctionManifest: name and config, without the handler.
buildPersistedFunctionManifest(manifest) ==
    [name |-> manifest.name, config |-> manifest.config]

\* What earlier runs may have left in the manifests directory.
StaleManifest(name) == [name |-> name, config |-> "{stale}"]

PriorDirs ==
    {[f \in {ManifestFile(n) : n \in names} |->
         StaleManifest(CHOOSE n \in names : ManifestFile(n) = f)] :
     names \in SUBSET {"old", "echo"}}

\* writeManifestToDisk: the first invocation removes the directory and makes it
\* anew; then the manifest's file is written.
writeManifestToDisk(d, manifest, isFirstInvocation) ==
    LET cleared == IF isFirstInvocation THEN EmptyMap ELSE d
    IN  [f \in DOMAIN cleared \cup {ManifestFile(manifest.name)} |->
            IF f = ManifestFile(manifest.name)
            THEN buildPersistedFunctionManifest(manifest)
            ELSE cleared[f]]

\* A process that runs an entrypoint, in either phase, over whatever an
\* earlier run left on disk.
IntrospectInit ==
    /\ ServerInit
    /\ LoopIdle
    /\ environment = "local"
    /\ functions = EmptyMap
    /\ registered = <<>>
    /\ lastExecute = NoExecute
    /\ processEnv \in {e \in ProcessEnvs : /\ e.NODE_ENV = Unset
                                          /\ e.AWS_LAMBDA_RUNTIME_API = Unset
                                          /\ e.BB_FUNCTIONS_PHASE \in {Unset, "introspect"}}
    /\ manager = EnvironmentManager(processEnv)
    /\ source \in Sources
    /\ at = 0
    /\ dir \in PriorDirs
    /\ runs = <<>>
    /\ clears = 0
    /\ manifests = EmptyMap
    /\ present = TRUE
    /\ spc = "ready"
    /\ thrown = NoThrown
    /\ formatted = NoRuntimeError

\* The entrypoint's next defineFn(name, handler, config).
defineFn ==
    /\ Len(runs) < MaxRuns
    /\ at < Len(source)
    /\ LET call == source[at + 1]
           registry == register(functions, call.name, call.handler, call.config)
       IN  /\ functions' = registry
           /\ registered' = Append(registered, call)
           /\ dir' = IF manager.phase = "introspect"
                     THEN writeManifestToDisk(dir, call, size(registry) = 1)
                     ELSE dir
           /\ clears' = IF manager.phase = "introspect" /\ size(registry) = 1
                         THEN clears + 1 ELSE clears
    /\ at' = at + 1
    /\ UNCHANGED <<lastExecute, processEnv, manager, source, runs>>
    /\ UNCHANGED <<serverVars, loopVars, errorVars, storeVars>>

\* The entrypoint has run to its end and the process exits; the next run of
\* the same entrypoint starts with an empty registry and the same directory.
processExits ==
    /\ Len(runs) < MaxRuns
    /\ at = Len(source)
    /\ runs' = Append(runs, dir)
    /\ functions' = EmptyMap
    /\ registered' = <<>>
    /\ at' = 0
    /\ clears' = 0
    /\ UNCHANGED <<lastExecute, processEnv, manager, source, dir>>
    /\ UNCHANGED <<serverVars, loopVars, errorVars, storeVars>>

NextIntrospect ==
    \/ defineFn
    \/ processExits

SpecIntrospect == IntrospectInit /\ [][NextIntrospect]_vars

\* ------------------------------------------------------ error normalisation

\* JavaScript values of the properties read from a thrown value.
Absent == [t |-> "undefined", v |-> "undefined"]

Str(v) == [t |-> "string", v |-> v]

Num(v) == [t |-> "number", v |-> v]

Arr(elems) == [t |-> "array", v |-> elems]

\* Values of a `stack` property: none, a string, arrays of strings, an array
\* that starts with a string and goes on with a number, an array of numbers.
Stacks == {Absent, Str("Error: boom at f"), Arr(<<>>), Arr(<<Str("at f"), Str("at g")>>),
           Arr(<<Str("at f"), Num("5")>>), Arr(<<Num("5")>>)}

\* Thrown values: Error instances, strings, a number, null, undefined, and
\* plain objects with any of message, name and stack.
ThrownShapes ==
    [type : {"Error"}, message : {Str("boom"), Str("")}, name : {Str("Error"), Str("TypeError")},
     stack : {Absent, Str("Error: boom at f")}]
    \cup [type : {"string"}, v : {"oops", ""}]
    \cup [type : {"number"}, v : {"42"}]
    \cup [type : {"null", "undefined"}]
    \cup [type : {"object"}, message : {Absent, Str("boom"), Num("7")},
          name : {Absent, Str("MyError"), Num("7")}, stack : Stacks]

\* String(error) of a value that is not an object.
String(error) ==
    CASE error.type \in {"string", "number"} -> error.v
      [] error.type = "null" -> "null"
      [] error.type = "undefined" -> "undefined"

\* error.stack?.split("/n") ?? []: the separator is the two characters "/n",
\* which the stack in the value space does not contain.
split(stack) == IF stack.t = "string" THEN <<stack>> ELSE <<>>

formatRuntimeError(error) ==
    IF error.type = "Error"
    THEN [errorMessage |-> error.message.v,
          errorType |-> error.name.v,
          stackTrace |-> split(error.stack)]
    ELSE IF error.type = "string"
    THEN [errorMessage |-> error.v, errorType |-> "UnknownError", stackTrace |-> <<>>]
    ELSE IF error.type # "object"
    THEN [errorMessage |-> String(error), errorType |-> "UnknownError", stackTrace |-> <<>>]
    ELSE [errorMessage |-> IF error.message.t = "string" THEN error.message.v
                           ELSE "An unknown error occurred",
          errorType |-> IF error.name.t = "string" THEN error.name.v ELSE "UnknownError",
          stackTrace |-> IF /\ error.stack.t = "array"
                            /\ Len(error.stack.v) > 0
                            /\ error.stack.v[1].t = "string"
                         THEN error.stack.v
                         ELSE <<>>]

\* RuntimeError.safeParse(body).success for the body JSON.stringify makes of a
\* RuntimeError: errorMessage and errorType are strings of at least one
\* character, stackTrace is an array of such strings.
RuntimeErrorAccepts(runtimeError) ==
    /\ runtimeError.errorMessage # ""
    /\ runtimeError.errorType # ""
    /\ \A i \in DOMAIN runtimeError.stackTrace :
           /\ runtimeError.stackTrace[i].t = "string"
           /\ runtimeError.stackTrace[i].v # ""

FormatInit ==
    /\ ServerInit
    /\ LoopIdle
    /\ environment = "local"
    /\ functions = EmptyMap
    /\ registered = <<>>
    /\ lastExecute = NoExecute
    /\ processEnv = NoEnv
    /\ manager = NoManager
    /\ source = <<>>
    /\ at = 0
    /\ dir = EmptyMap
    /\ runs = <<>>
    /\ clears = 0
    /\ manifests = EmptyMap
    /\ present = TRUE
    /\ spc = "ready"
    /\ thrown \in ThrownShapes
    /\ formatted = NoRuntimeError

\* RuntimeClient.handleFailure(requestId, error), up to the body it posts.
handleFailure ==
    /\ formatted = NoRuntimeError
    /\ formatted' = formatRuntimeError(thrown)
    /\ UNCHANGED <<serverVars, loopVars, functions, registered, lastExecute, processEnv,
                   manager, source, at, dir, runs, clears, thrown, storeVars>>

NextFormat == handleFailure

SpecFormat == FormatInit /\ [][NextFormat]_vars

\* ------------------------------------------------------- manifest store

\* files.filter((f) => f.endsWith(".json")) over what readdirSync returns.
OtherFile == "notes.txt"

jsonFiles(d) == {f \in DOMAIN d : f # OtherFile}

\* ManifestStore.loadManifests: nothing is done for a missing directory;
\* otherwise every *.json file is read and set under the name it holds.
loadManifests(m, exists, d) ==
    IF ~exists
    THEN m
    ELSE LET read == {d[f] : f \in jsonFiles(d)}
         IN  [n \in DOMAIN m \cup {manifest.name : manifest \in read} |->
                 IF \E manifest \in read : manifest.name = n
                 THEN CHOOSE manifest \in read : manifest.name = n
                 ELSE m[n]]

\* getManifest(functionName): undefined for a name the map does not hold.
getManifest(m, functionName) ==
    IF functionName \in DOMAIN m THEN m[functionName] ELSE NULL

\* startDevServer over whatever the manifests directory holds, or without one.
StoreInit ==
    /\ ServerInit
    /\ LoopIdle
    /\ environment = "local"
    /\ functions = EmptyMap
    /\ registered = <<>>
    /\ lastExecute = NoExecute
    /\ processEnv = NoEnv
    /\ manager = NoManager
    /\ source = <<>>
    /\ at = 0
    /\ dir \in PriorDirs
    /\ runs = <<>>
    /\ clears = 0
    /\ thrown = NoThrown
    /\ formatted = NoRuntimeError
    /\ manifests = EmptyMap
    /\ present \in {b \in BOOLEAN : b \/ dir = EmptyMap}
    /\ spc = "new"

\* new ManifestStore(); manifestStore.loadManifests(); then the server is
\* started and the user's process with it.
startupLoad ==
    /\ spc = "new"
    /\ manifests' = loadManifests(manifests, present, dir)
    /\ spc' = "started"
    /\ UNCHANGED <<present, functions, registered, lastExecute, processEnv, manager,
                   source, at, dir, runs, clears>>
    /\ UNCHANGED <<serverVars, loopVars, errorVars>>

\* After the wait: the manifests are loaded again if the runtime has connected.
reloadAfterConnect ==
    /\ spc = "started"
    /\ manifests' = IF isRuntimeConnected(bridge)
                    THEN loadManifests(manifests, present, dir)
                    ELSE manifests
    /\ spc' = "ready"
    /\ UNCHANGED <<present, functions, registered, lastExecute, processEnv, manager,
                   source, at, dir, runs, clears>>
    /\ UNCHANGED <<serverVars, loopVars, errorVars>>

\* The user's process, or a build next to the server, writes a manifest with
\* writeManifestToDisk.
manifestWritten(manifest, isFirstInvocation) ==
    /\ dir' = writeManifestToDisk(IF present THEN dir ELSE EmptyMap,
                                  manifest, isFirstInvocation)
    /\ present' = TRUE
    /\ UNCHANGED <<manifests, spc, functions, registered, lastExecute, processEnv,
                   manager, source, at, runs, clears>>
    /\ UNCHANGED <<serverVars, loopVars, errorVars>>

\* Something else leaves a file that is no manifest in the directory.
otherFileWritten ==
    /\ present
    /\ OtherFile \notin DOMAIN dir
    /\ dir' = [f \in DOMAIN dir \cup {OtherFile} |->
                  IF f = OtherFile THEN StaleManifest("notes") ELSE dir[f]]
    /\ UNCHANGED <<manifests, present, spc, functions, registered, lastExecute,
                   processEnv, manager, source, at, runs, clears>>
    /\ UNCHANGED <<serverVars, loopVars, errorVars>>

\* The directory is removed (a clean of .browserbase).
directoryRemoved ==
    /\ present
    /\ dir' = EmptyMap
    /\ present' = FALSE
    /\ UNCHANGED <<manifests, spc, functions, registered, lastExecute, processEnv,
                   manager, source, at, runs, clears>>
    /\ UNCHANGED <<serverVars, loopVars, errorVars>>

\* The runtime's first poll reaches the server once it is listening.
runtimeConnects ==
    /\ spc # "new"
    /\ handleInvocationNext

NextStore ==
    \/ startupLoad
    \/ reloadAfterConnect
    \/ \E manifest \in DefineCalls, isFirstInvocation \in BOOLEAN :
           manifestWritten(manifest, isFirstInvocation)
    \/ otherFileWritten
    \/ directoryRemoved
    \/ runtimeConnects

SpecStore == StoreInit /\ [][NextStore]_vars

\* ------------------------------------------- dev server and runtime together

\* A runtime in the local environment, started with RuntimeClient pointing at
\* the dev server: every request of RuntimeClient is a request the server
\* handles, and every answer the runtime awaits is what the server wrote.

\* What the handlers of the runtime's functions may throw, as the loop logs it
\* and as formatRuntimeError sees it.
SystemThrown == {"Error: boom", "Error: ", "oops"}

thrownValue(error) ==
    CASE error = "Error: boom" ->
             [type |-> "Error", message |-> Str("boom"), name |-> Str("Error"),
              stack |-> Str("Error: boom at f")]
      [] error = "Error: " ->
             [type |-> "Error", message |-> Str(""), name |-> Str("Error"),
              stack |-> Str("Error at f")]
      [] error = "oops" -> [type |-> "string", v |-> "oops"]

\* JSON.stringify(payload) as the body of the response POST: no body at all for
\* undefined.
stringifyResult(result) == IF result = "undefined" THEN "" ELSE result

\* JSON.stringify(runtimeError) as the body of the error POST, up to what the
\* error endpoint reads of it.
stringifyError(runtimeError) ==
    IF RuntimeErrorAccepts(runtimeError)
    THEN "{\"errorMessage\":\"boom\",\"errorType\":\"Error\",\"stackTrace\":[]}"
    ELSE "{\"errorMessage\":\"\",\"errorType\":\"Error\",\"stackTrace\":[]}"

\* The requests of the runtime that have reached the server.
PollsArrived == Cardinality({n \in NextIds : responses[n].kind = "next"})

PostsArrived == Cardinality({p \in OutcomeIds : responses[p].kind # "none"})

\* The ServerResponse of the runtime's latest poll and of its latest POST.
PollResponse == CHOOSE n \in NextIds : \A m \in NextIds : responses[m].kind = "next" => m <= n

PostResponse ==
    CHOOSE p \in OutcomeIds :
        /\ responses[p].kind # "none"
        /\ \A q \in OutcomeIds : responses[q].kind # "none" => q <= p

\* What the pending handleSuccess or handleFailure call was given.
OutcomeArg == log[CHOOSE i \in Pending(log) : log[i].op = lpc].arg

\* fetch(`${baseUrl}/invocation/next`) reaches the server.
fetchNextArrives ==
    /\ lpc = "waitForNextInvocation"
    /\ PollsArrived < iter
    /\ handleInvocationNext

\* The fetch resolves with what triggerInvocation wrote to the held response.
fetchNextResolves ==
    /\ lpc = "waitForNextInvocation"
    /\ PollsArrived = iter
    /\ responses[PollResponse].writes # <<>>
    /\ LET w == responses[PollResponse].writes[1]
       IN  /\ w.status = 200
           /\ waitForNextInvocationResolves(w.body.id, w.body.text)

\* fetch(`${baseUrl}/invocation/${requestId}/response`) reaches the server, and
\* the server has read its body.
postResponseArrives ==
    /\ lpc = "handleSuccess"
    /\ PostsArrived < iter
    /\ handleInvocationResponse(cur.requestId)

postResponseParsed ==
    /\ lpc = "handleSuccess"
    /\ PostsArrived = iter
    /\ handleInvocationResponseParsed(PostResponse, stringifyResult(OutcomeArg))

\* fetch(`${baseUrl}/invocation/${requestId}/error`) with the formatted error.
postErrorArrives ==
    /\ lpc = "handleFailure"
    /\ PostsArrived < iter
    /\ handleInvocationError(cur.requestId)

postErrorParsed ==
    /\ lpc = "handleFailure"
    /\ PostsArrived = iter
    /\ handleInvocationErrorParsed(
           PostResponse, stringifyError(formatRuntimeError(thrownValue(OutcomeArg))))

\* The POST's fetch resolves with the server's answer: response.ok is a 2xx.
postSettles ==
    /\ lpc \in {"handleSuccess", "handleFailure"}
    /\ PostsArrived = iter
    /\ responses[PostResponse].writes # <<>>
    /\ outcomeSettles(lpc, responses[PostResponse].writes[1].status = 202)

NextSystem ==
    \/ runInvocationLoop
    \/ fetchNextArrives
    \/ fetchNextResolves
    \/ \E result \in HandlerResults : executeFunctionResolves(result)
    \/ \E error \in SystemThrown : executeFunctionRejects(error)
    \/ postResponseArrives
    \/ postResponseParsed
    \/ postErrorArrives
    \/ postErrorParsed
    \/ postSettles
    \/ \E functionName \in FunctionNames : handleFunctionInvoke(functionName)
    \/ \E r \in ResIds, body \in InvokeBodies : handleFunctionInvokeParsed(r, body)
    \/ \E r \in ResIds, created \in BOOLEAN : handleFunctionInvokeSession(r, created)
    \/ \E r \in ResIds, closed \in BOOLEAN : handleFunctionInvokeCleaned(r, closed)

\* Every request that was sent arrives, every handler that waits is resumed and
\* the runtime's loop goes on.
SpecSystem == Init /\ [][NextSystem]_vars /\ WF_vars(NextSystem)

\* ================================================================ claims

\* What was written to a response, as a set.
Writes(r) == {responses[r].writes[i] : i \in DOMAIN responses[r].writes}

Statuses(r) == {w.status : w \in Writes(r)}

\* The invocation payloads delivered to runtimes so far.
Payloads == {w.body : w \in {x \in UNION {Writes(n) : n \in NextIds} :
                                  x.body.tag = "payload"}}

\* The request ids issued for the invocation of caller r (its session is r).
IssuedFor(r) == {p.id : p \in {q \in Payloads : q.sid = r}}

IssuedIds == {p.id : p \in Payloads}

\* The invocation of caller r was delivered to a runtime and r has no answer yet.
Active(r) == IssuedFor(r) # {} /\ responses[r].writes = <<>>

\* This step is the one in which triggerInvocation returns true / false for r.
TriggerSucceeds(r) == tasks[r].pc = "creating" /\ tasks'[r].pc = "held"

TriggerFails(r) == tasks[r].pc = "creating" /\ tasks'[r].pc = "cleaning"

\* C1: single flight.  At most one invocation is active, it is the one the
\* bridge holds, and while it is active triggerInvocation returns false and
\* replaces neither the held caller connection nor currentRequestId, and
\* completeWithSuccess/completeWithError with another request id return false.
C1_SingleFlight ==
    /\ Cardinality({r \in InvokeIds : Active(r)}) <= 1
    /\ \A r \in InvokeIds : Active(r) => bridge.invokeConnection = r
    /\ hasActiveInvocation(bridge) =>
         /\ \A fn \in ManifestNames, r \in InvokeIds :
              LET t == triggerInvocation(bridge, responses, uuids, fn, r, r)
              IN /\ ~t.ret
                 /\ t.bridge.invokeConnection = bridge.invokeConnection
                 /\ t.bridge.currentRequestId = bridge.currentRequestId
         /\ \A id \in RequestIds \ {bridge.currentRequestId} :
              /\ ~completeWithSuccess(bridge, responses, id, "{}").ret
              /\ ~completeWithError(bridge, responses, id, "boom").ret

\* C1 witness: one invocation is active, a runtime waits on next, and a second
\* invoke had its trigger refused.
C1_Witness ==
    \E r1, r2 \in InvokeIds :
        /\ Active(r1)
        /\ bridge.nextConnection # NULL
        /\ tasks[r2].pc = "cleaning"

\* C2: invariant I2.  currentRequestId is non-null exactly when invokeConnection
\* is non-null.
C2_RequestIdIffInvokeConnection ==
    (bridge.currentRequestId # NULL) <=> (bridge.invokeConnection # NULL)

\* C2 witness: a second invocation is held after the first one was completed.
C2_Witness ==
    /\ bridge.currentRequestId = 2
    /\ bridge.invokeConnection # NULL
    /\ \E r \in InvokeIds : 200 \in Statuses(r)

\* C3: triggerInvocation returns true exactly when a next connection is held
\* and no invocation is active; then the held next connection is completed with
\* 200 and the payload, nextConnection is null, invokeConnection is the caller's
\* response and currentRequestId is an id not issued before.
C3_TriggerContract ==
    [][\A r \in InvokeIds :
         /\ (TriggerSucceeds(r) \/ TriggerFails(r)) =>
              (TriggerSucceeds(r) <=>
                 (bridge.nextConnection # NULL /\ bridge.invokeConnection = NULL))
         /\ TriggerSucceeds(r) =>
              /\ bridge.nextConnection # NULL
              /\ responses'[bridge.nextConnection].writes =
                   <<[status |-> 200,
                      body |-> Body("payload", tasks[r].fn,
                                    bridge'.currentRequestId, r)]>>
              /\ bridge'.nextConnection = NULL
              /\ bridge'.invokeConnection = r
              /\ bridge'.currentRequestId # NULL
              /\ bridge'.currentRequestId \notin IssuedIds]_vars

\* C3 witness: a trigger succeeded (the caller is held, its payload delivered)
\* and another one failed.
C3_Witness ==
    \E r1, r2 \in InvokeIds :
        /\ tasks[r1].pc = "held"
        /\ IssuedFor(r1) # {}
        /\ tasks[r2].pc = "cleaning"

\* This step is the one in which the handler of outcome POST p calls the bridge
\* (or fails before it does) and answers.
Answers(p) == tasks[p].pc = "parsing" /\ tasks'[p].pc = "done"

BridgeInvocationUnchanged ==
    /\ bridge'.invokeConnection = bridge.invokeConnection
    /\ bridge'.currentRequestId = bridge.currentRequestId
    /\ bridge'.currentFunctionName = bridge.currentFunctionName

\* C4: id integrity.  An outcome POST whose request id differs from
\* currentRequestId is answered 400, writes nothing to the held caller response
\* and leaves invokeConnection, currentRequestId and currentFunctionName
\* unchanged; a response POST with the matching id completes the caller with 200.
C4_IdIntegrity ==
    [][\A p \in OutcomeIds :
         /\ (Answers(p) /\ tasks[p].rid # bridge.currentRequestId) =>
              /\ responses'[p].writes # <<>>
              /\ \A i \in DOMAIN responses'[p].writes :
                    responses'[p].writes[i].status = 400
              /\ \A r \in InvokeIds : responses'[r] = responses[r]
              /\ BridgeInvocationUnchanged
         /\ (Answers(p) /\ responses[p].kind = "response"
               /\ bridge.invokeConnection # NULL
               /\ tasks[p].rid = bridge.currentRequestId) =>
              responses'[bridge.invokeConnection].writes # <<>>]_vars

\* C4, the part that holds of the code: a POST with a mismatching id never
\* writes to the caller and leaves the invocation as it is, whatever its body.
C4_CallerUnaffected ==
    [][\A p \in OutcomeIds :
         (Answers(p) /\ tasks[p].rid # bridge.currentRequestId) =>
              /\ \A i \in DOMAIN responses'[p].writes :
                    responses'[p].writes[i].status \in {400, 500}
              /\ \A r \in InvokeIds : responses'[r] = responses[r]
              /\ BridgeInvocationUnchanged]_vars

\* C5: session lifecycle.  Every session created by handleFunctionInvoke has
\* had exactly one closeSession call once its caller has been answered (no step
\* of the code touches the session after that), and never more than one.
C5_SessionReleasedOnce ==
    \A r \in InvokeIds :
        /\ sessions[r].closeCalls <= 1
        /\ (sessions[r].created /\ responses[r].writes # <<>>) =>
              sessions[r].closeCalls = 1

\* C5, the case that holds of the code: a session whose trigger was refused is
\* released exactly once.
C5_ReleasedWhenRefused ==
    \A r \in InvokeIds :
        /\ sessions[r].closeCalls <= 1
        /\ (sessions[r].created /\ IssuedFor(r) = {}) => sessions[r].closeCalls = 1

Preempted == [status |-> 503,
              body |-> Body("error", "Another runtime connected", NULL, NULL)]

\* C6: preemption.  A holdNextConnection call made while a next connection is
\* held completes the older response with 503 {"error":"Another runtime
\* connected"} and holds the newer one; a successful triggerInvocation delivers
\* its payload to the held (newest) connection and to no other.
C6_Preemption ==
    [][/\ \A n \in NextIds :
            (responses[n].kind = "none" /\ responses'[n].kind = "next"
               /\ bridge.nextConnection # NULL) =>
                 /\ responses'[bridge.nextConnection].writes = <<Preempted>>
                 /\ bridge'.nextConnection = n
                 /\ responses'[n].writes = <<>>
       /\ \A r \in InvokeIds :
            TriggerSucceeds(r) =>
                 /\ bridge.nextConnection # NULL
                 /\ \A m \in NextIds :
                       responses[m].kind = "next" => m <= bridge.nextConnection
                 /\ Len(responses'[bridge.nextConnection].writes) = 1
                 /\ responses'[bridge.nextConnection].writes[1].status = 200
                 /\ responses'[bridge.nextConnection].writes[1].body.tag = "payload"
                 /\ responses'[bridge.nextConnection].writes[1].body.sid = r
                 /\ \A m \in NextIds \ {bridge.nextConnection} :
                       responses'[m] = responses[m]]_vars

\* C6 witness: the older next response got the 503, the newer one the payload.
C6_Witness ==
    \E n1, n2 \in NextIds :
        /\ n1 < n2
        /\ responses[n1].writes = <<Preempted>>
        /\ Statuses(n2) = {200}
        /\ \E w \in Writes(n2) : w.body.tag = "payload"

\* C7: round trip.  Whenever a caller response carries a 200, a response POST
\* with the request id issued for that invocation has been received; and a 202
\* acknowledgement of a response POST is sent only when the caller of that
\* request id has its 200.
C7_RoundTrip ==
    /\ \A r \in InvokeIds :
         200 \in Statuses(r) =>
              \E p \in OutcomeIds :
                  /\ responses[p].kind = "response"
                  /\ tasks[p].rid \in IssuedFor(r)
    /\ \A p \in OutcomeIds :
         (responses[p].kind = "response" /\ 202 \in Statuses(p)) =>
              \E r \in InvokeIds :
                  /\ tasks[p].rid \in IssuedFor(r)
                  /\ 200 \in Statuses(r)

\* C7 witness: a caller has its 200 and the runtime its 202, after a POST with
\* another id was refused.
C7_Witness ==
    \E r \in InvokeIds, p, q \in OutcomeIds :
        /\ 200 \in Statuses(r)
        /\ 202 \in Statuses(p)
        /\ 400 \in Statuses(q)
        /\ tasks[q].rid \notin IssuedFor(r)

\* C8: caller disconnect.  Once the held caller connection has closed before
\* completion, the bridge no longer holds it (invokeConnection, currentRequestId
\* and currentFunctionName are cleared) and its session has been released.
C8_CallerDisconnectClears ==
    \A r \in InvokeIds :
        responses[r].closed =>
            /\ bridge.invokeConnection # r
            /\ sessions[r].closeCalls = 1

\* ---- runtime loop claims

CallsOf(op, k) ==
    {i \in DOMAIN log : log[i].ev = "call" /\ log[i].op = op /\ log[i].iter = k}

SettlesOf(ev, op, k) ==
    {i \in DOMAIN log : log[i].ev = ev /\ log[i].op = op /\ log[i].iter = k}

\* The call at position j had settled before position i.
SettledBefore(j, i) ==
    \E m \in DOMAIN log :
        /\ j < m /\ m < i
        /\ log[m].ev \in {"resolved", "rejected"}
        /\ log[m].op = log[j].op
        /\ log[m].iter = log[j].iter

\* Iteration k is over and the loop went on to its next poll (or is about to).
BackToPolling(k) == iter > k \/ lpc = "loop"

\* The executeFunction rejections the loop has seen.
UserErrors ==
    {i \in DOMAIN log : log[i].ev = "rejected" /\ log[i].op = "executeFunction"}

\* C9: runtime loop ordering.  Invocations are processed one at a time: at
\* most one client call is in flight; within an iteration the order is
\* waitForNextInvocation, executeFunction, then one outcome POST (handleSuccess
\* after a result, handleFailure after a throw); and no waitForNextInvocation
\* or executeFunction starts before every earlier call, the previous
\* iteration's outcome POST included, has resolved or rejected.
C9_LoopOrdering ==
    /\ Cardinality(Pending(log)) <= 1
    /\ \A i \in DOMAIN log :
         log[i].ev = "call" /\ log[i].op \in ClientOps =>
            /\ \A j \in 1..(i - 1) :
                 /\ log[j].iter <= log[i].iter
                 /\ (log[j].ev = "call" /\ log[j].op \in ClientOps)
                        => SettledBefore(j, i)
            /\ log[i].op = "waitForNextInvocation" =>
                 \A j \in 1..(i - 1) : log[j].iter < log[i].iter
            /\ log[i].op = "executeFunction" =>
                 \E j \in 1..(i - 1) :
                     /\ log[j].iter = log[i].iter
                     /\ log[j].op = "waitForNextInvocation"
                     /\ log[j].ev = "resolved"
            /\ log[i].op \in {"handleSuccess", "handleFailure"} =>
                 /\ log[i - 1].iter = log[i].iter
                 /\ log[i - 1].op = "executeFunction"
                 /\ log[i - 1].ev =
                        (IF log[i].op = "handleSuccess" THEN "resolved" ELSE "rejected")
                 /\ CallsOf("handleSuccess", log[i].iter)
                        \cup CallsOf("handleFailure", log[i].iter) = {i}

\* C9 witness: the second iteration executes a handler after the first
\* iteration's handleFailure rejected.
C9_Witness ==
    \E i, j \in DOMAIN log :
        /\ i < j
        /\ log[i] = Entry("rejected", "handleFailure", 1, log[i].requestId, "PostErrorError")
        /\ log[j].ev = "call" /\ log[j].op = "executeFunction" /\ log[j].iter = 2

SystemErrorsOf(k) ==
    {log[i].arg : i \in SettlesOf("rejected", "waitForNextInvocation", k)
                      \cup SettlesOf("rejected", "handleSuccess", k)
                      \cup SettlesOf("rejected", "handleFailure", k)}
    \cup {"Function not found in registry" :
              i \in {j \in SettlesOf("resolved", "waitForNextInvocation", k) :
                         ~getFunctionDefinitionByName(log[j].arg)}}

C12_FatalHandlerAlways ==
    \A k \in 1..iter :
        SystemErrorsOf(k) # {} =>
            /\ Cardinality(CallsOf("handleProductionFailure", k)) = 1
            /\ \A f \in CallsOf("handleProductionFailure", k) :
                   log[f].arg \in SystemErrorsOf(k)

\* ---- refused triggers

\* The 503 messages written to r.
Refusals(r) == {w.body.text : w \in {x \in Writes(r) : x.status = 503}}

\* C13: when triggerInvocation returns false, the 503 sent to the caller names
\* the condition that held at the trigger: "Another invocation is in progress"
\* when an invocation was active then, "No runtime connected" when none was
\* (so no next connection was held), whatever other requests were handled
\* while the session release was awaited.
C13_RefusalNamesCause ==
    \A r \in InvokeIds :
        503 \in Statuses(r) =>
            Refusals(r) = {IF tasks[r].busy THEN "Another invocation is in progress"
                                            ELSE "No runtime connected"}

\* ---- unknown function

\* The invoke requests in flight whose path names a function without manifest.
UnknownInvokes ==
    {r \in InvokeIds : tasks[r].pc = "parsing" /\ tasks[r].fn \notin ManifestNames \cup {""}}

\* The body is JSON and passes the invoke schema.
ValidInvokeBody(body) ==
    parseJsonBody(body).ok /\ invokeSchema(parseJsonBody(body).value).ok

\* The handler of r ends here with exactly this error response.
EndsWith(r, statusCode, error) ==
    /\ tasks'[r].pc = "done"
    /\ Len(responses'[r].writes) = 1
    /\ responses'[r].writes[1].status = statusCode
    /\ responses'[r].writes[1].body.tag = error

\* C14 as claimed: an invoke whose name has no manifest is answered 404 with
\* error "Not Found", creates no session and leaves the bridge unchanged.
C14_UnknownFunction ==
    [][\A r \in UnknownInvokes, body \in InvokeBodies :
           handleFunctionInvokeParsed(r, body) =>
               /\ EndsWith(r, 404, "Not Found")
               /\ sessions' = sessions
               /\ bridge' = bridge]_vars

\* C14, amended: an invoke whose name has no manifest and whose body is JSON
\* that passes the invoke schema is answered 404 with error "Not Found"; with
\* any body it is answered at once, no session is created and the bridge is
\* unchanged.
C14_UnknownFunctionValidBody ==
    [][\A r \in UnknownInvokes, body \in InvokeBodies :
           handleFunctionInvokeParsed(r, body) =>
               /\ tasks'[r].pc = "done"
               /\ ValidInvokeBody(body) => EndsWith(r, 404, "Not Found")
               /\ sessions' = sessions
               /\ bridge' = bridge]_vars

\* C14 witness: an invoke of a function without manifest got its 404 while a
\* runtime was waiting, and no session exists for it.
C14_Witness ==
    \E r \in InvokeIds :
        /\ tasks[r].fn = "ghost"
        /\ Statuses(r) = {404}
        /\ ~sessions[r].created
        /\ bridge.nextConnection # NULL

\* ---- malformed input

ValidErrorBody(raw) ==
    parseJsonBody(raw).ok /\ RuntimeError(parseJsonBody(raw).value).ok

\* C15: malformed input.  A body that is not JSON, or that fails the
\* endpoint's schema, sent to the invoke, response or error endpoint is
\* answered 400 "Bad Request", and the bridge is not touched and no session is
\* created.
C15_MalformedInput ==
    [][/\ \A r \in InvokeIds, body \in InvokeBodies :
             (handleFunctionInvokeParsed(r, body) /\ ~ValidInvokeBody(body)) =>
                 /\ EndsWith(r, 400, "Bad Request")
                 /\ bridge' = bridge /\ sessions' = sessions
       /\ \A r \in OutcomeIds, raw \in ResultBodies :
             (handleInvocationResponseParsed(r, raw) /\ ~parseJsonBody(raw).ok) =>
                 /\ EndsWith(r, 400, "Bad Request")
                 /\ bridge' = bridge /\ sessions' = sessions
       /\ \A r \in OutcomeIds, raw \in ErrorBodies :
             (handleInvocationErrorParsed(r, raw) /\ ~ValidErrorBody(raw)) =>
                 /\ EndsWith(r, 400, "Bad Request")
                 /\ bridge' = bridge /\ sessions' = sessions]_vars

\* ---- liveness endpoint

\* C16: GET / is answered at once with status 200 and body {"ok": true},
\* whatever the bridge holds.
C16_Liveness ==
    [][handleRequest("GET", "/") =>
           \E r \in OtherIds :
               /\ responses[r].kind = "none"
               /\ Len(responses'[r].writes) = 1
               /\ responses'[r].writes[1].status = 200
               /\ responses'[r].writes[1].body.tag = "ok"
               /\ responses'[r].writes[1].body.text = "true"]_vars

\* ---- registry claims

\* The names registered so far, and the latest registration of a name.
RegisteredNames == {registered[i].name : i \in DOMAIN registered}

LatestOf(name) ==
    registered[CHOOSE i \in DOMAIN registered :
                   /\ registered[i].name = name
                   /\ \A j \in DOMAIN registered : registered[j].name = name => j <= i]

\* C17: registry replacement.  After any sequence of register calls, size is
\* the number of distinct names registered (so registering a present name
\* leaves it unchanged), getByName of a registered name returns the handler
\* and config of its most recent registration, matching the name exactly, and
\* getByName of a name never registered returns null.
C17_RegistryReplacement ==
    /\ size(functions) = Cardinality(RegisteredNames)
    /\ \A name \in LookupNames :
          IF name \in RegisteredNames
          THEN getByName(functions, name) = LatestOf(name)
          ELSE getByName(functions, name).name = NoName

\* C17 witness: "echo" was registered twice with different handlers and "Echo"
\* once; the registry holds two entries.
C17_Witness ==
    /\ Len(registered) = 3
    /\ registered[1].name = "echo" /\ registered[1].handler = "h1"
    /\ registered[2].name = "Echo"
    /\ registered[3].name = "echo" /\ registered[3].handler = "h2"
    /\ size(functions) = 2

\* C18: registry execute errors.  execute for a name absent from the registry
\* rejects with FunctionNotFoundInRegistryError and calls no handler; for a
\* registered name it calls that name's handler, and a value the handler
\* throws is the rejection of execute, unchanged; the registry's contents are
\* the same after execute in both cases.
C18_ExecuteErrors ==
    [][\A name \in LookupNames, behaviour \in HandlerBehaviours :
           registryExecute(name, behaviour) =>
               /\ functions' = functions
               /\ IF name \notin RegisteredNames
                  THEN /\ lastExecute'.called = NoName
                       /\ lastExecute'.ev = "rejected"
                       /\ lastExecute'.value = "FunctionNotFoundInRegistryError"
                  ELSE /\ lastExecute'.called = LatestOf(name).handler
                       /\ behaviour.ev = "rejected" =>
                              /\ lastExecute'.ev = "rejected"
                              /\ lastExecute'.value = behaviour.value]_vars

\* C18 witness: with "echo" registered, an execute of "echo" rejected with
\* what its handler threw.
C18_Witness ==
    /\ "echo" \in RegisteredNames
    /\ lastExecute.name = "echo"
    /\ lastExecute.ev = "rejected"
    /\ lastExecute.value = "oops"

\* ---- manifest and environment claims

\* The names an entrypoint defines, and the manifest of its last definition
\* of a name.
SourceNames == {source[i].name : i \in DOMAIN source}

LastDefinition(name) ==
    source[CHOOSE i \in DOMAIN source :
               /\ source[i].name = name
               /\ \A j \in DOMAIN source : source[j].name = name => j <= i]

\* The directory d holds exactly the manifests of the entrypoint.
ExactlyTheManifests(d) ==
    /\ DOMAIN d = {ManifestFile(n) : n \in SourceNames}
    /\ \A n \in SourceNames :
           d[ManifestFile(n)] = buildPersistedFunctionManifest(LastDefinition(n))

\* C19: manifest idempotence.  After every complete introspect run, whatever
\* the directory held before, the manifests directory holds exactly one
\* {name}.json per distinct name the entrypoint defined and nothing else, and a
\* repeated run leaves the same files with the same contents.
C19_ManifestIdempotence ==
    manager.phase = "introspect" =>
        \A i \in DOMAIN runs :
            /\ ExactlyTheManifests(runs[i])
            /\ i > 1 => runs[i] = runs[i - 1]

\* What does hold: the same, for entrypoints that define at least one function.
C19_HoldsWhenSomethingIsDefined ==
    (manager.phase = "introspect" /\ source # <<>>) =>
        \A i \in DOMAIN runs :
            /\ ExactlyTheManifests(runs[i])
            /\ i > 1 => runs[i] = runs[i - 1]

\* C20: environment defaults.  An EnvironmentManager reports, for a variable
\* that is unset or empty, "local" (NODE_ENV), "127.0.0.1:14113"
\* (AWS_LAMBDA_RUNTIME_API) and "runtime" (BB_FUNCTIONS_PHASE), and a
\* non-empty value verbatim.
C20_EnvironmentDefaults ==
    [][newEnvironmentManager =>
           LET reported(key, dflt) ==
                   IF processEnv[key] \in {Unset, ""} THEN dflt ELSE processEnv[key]
           IN  /\ manager'.environment = reported("NODE_ENV", "local")
               /\ manager'.runtimeApi = reported("AWS_LAMBDA_RUNTIME_API", "127.0.0.1:14113")
               /\ manager'.phase = reported("BB_FUNCTIONS_PHASE", "runtime")]_vars

\* ---- error shape

\* C21: error shape.  Every thrown value is normalised to a RuntimeError with
\* all three fields: errorMessage is the string message property of an Error
\* or object, the stringified value of a value that is not an object, and "An
\* unknown error occurred" otherwise; errorType is the string name, else
\* "UnknownError"; stackTrace is an array of strings, the empty array where
\* the value has no such stack.
C21_ErrorShape ==
    formatted # NoRuntimeError =>
        /\ formatted.errorMessage =
               (IF thrown.type \in {"Error", "object"}
                THEN IF thrown.message.t = "string" THEN thrown.message.v
                     ELSE "An unknown error occurred"
                ELSE String(thrown))
        /\ formatted.errorType =
               (IF thrown.type \in {"Error", "object"} /\ thrown.name.t = "string"
                THEN thrown.name.v
                ELSE "UnknownError")
        /\ \A i \in DOMAIN formatted.stackTrace : formatted.stackTrace[i].t = "string"
        /\ (thrown.type \notin {"Error", "object"} => formatted.stackTrace = <<>>)

\* ---- readiness

\* C22: readiness protocol.  With no invocation active, the dev server is
\* ready for an invoke only once the runtime has polled again: an invoke whose
\* trigger comes before that poll is not started and is answered 503 "No
\* runtime connected", and one whose trigger comes after the poll is started.
C22_Readiness ==
    [][\A r \in InvokeIds :
          /\ (tasks[r].pc = "creating" /\ tasks'[r].pc \in {"held", "cleaning"}
                  /\ bridge.invokeConnection = NULL) =>
                 IF bridge.nextConnection = NULL THEN TriggerFails(r)
                                                 ELSE TriggerSucceeds(r)
          /\ (tasks[r].pc = "cleaning" /\ tasks'[r].pc = "done" /\ ~tasks[r].busy) =>
                 /\ Len(responses'[r].writes) = 1
                 /\ responses'[r].writes[1].status = 503
                 /\ responses'[r].writes[1].body.text = "No runtime connected"]_vars

\* ---- frame conditions of the bridge

\* C23: a triggerInvocation call that returns false leaves every bridge field
\* unchanged and writes to no response, neither the held next response nor
\* the caller's.
C23_FailedTriggerChangesNothing ==
    [][\A r \in InvokeIds :
           TriggerFails(r) => /\ bridge' = bridge
                              /\ responses' = responses
                              /\ uuids' = uuids]_vars

\* C23 witness: a trigger was refused for an active invocation while a next
\* connection was held, and that connection is still held and unanswered.
C23_Witness ==
    \E r \in InvokeIds :
        /\ tasks[r].pc = "cleaning"
        /\ tasks[r].busy
        /\ bridge.nextConnection # NULL
        /\ responses[bridge.nextConnection].writes = <<>>
        /\ responses[r].writes = <<>>

\* The GET next request whose handler runs in this step.
Polling(res) == responses[res].kind = "none" /\ responses'[res].kind = "next"

\* C24: a holdNextConnection call made while an invocation is active only
\* populates nextConnection: invokeConnection, currentRequestId and
\* currentFunctionName are unchanged and nothing is written to the held
\* caller; and the active invocation is still completed by a response POST
\* with its request id.
C24_HoldWhileActive ==
    [][/\ \A res \in NextIds :
             (Polling(res) /\ bridge.invokeConnection # NULL) =>
                 /\ bridge'.nextConnection = res
                 /\ bridge'.invokeConnection = bridge.invokeConnection
                 /\ bridge'.currentRequestId = bridge.currentRequestId
                 /\ bridge'.currentFunctionName = bridge.currentFunctionName
                 /\ responses'[bridge.invokeConnection] = responses[bridge.invokeConnection]
       /\ \A p \in OutcomeIds, raw \in ResultBodies :
             (/\ handleInvocationResponseParsed(p, raw)
              /\ parseJsonBody(raw).ok
              /\ bridge.invokeConnection # NULL
              /\ bridge.nextConnection # NULL
              /\ tasks[p].rid = bridge.currentRequestId) =>
                 /\ Len(responses'[bridge.invokeConnection].writes) = 1
                 /\ responses'[bridge.invokeConnection].writes[1].status = 200
                 /\ bridge'.invokeConnection = NULL
                 /\ bridge'.nextConnection = bridge.nextConnection]_vars

\* C24 witness: the runtime polled again while an invocation is active: both
\* connections are held, the caller is unanswered and its request id stands.
C24_Witness ==
    /\ bridge.invokeConnection # NULL
    /\ bridge.nextConnection # NULL
    /\ bridge.currentRequestId = 1
    /\ responses[bridge.invokeConnection].writes = <<>>
    /\ responses[bridge.nextConnection].writes = <<>>

\* ---- completion

\* The bridge after a completion: the three invocation fields cleared, the rest
\* (nextConnection, runtimeConnectedOnce) as before.
Cleared == [bridge EXCEPT !.invokeConnection = NULL,
                          !.currentRequestId = NULL,
                          !.currentFunctionName = NoName]

\* Outcome POST p completes the active invocation: its id is currentRequestId.
Matches(p) == bridge.invokeConnection # NULL /\ tasks[p].rid = bridge.currentRequestId

\* This step writes exactly one answer to the held caller, with this status and
\* body, acknowledges p with 202 (the bridge call returned true), clears the
\* invocation and touches no other response.
CompletesWith(p, statusCode, tag, text) ==
    /\ responses'[bridge.invokeConnection].writes =
           <<[status |-> statusCode, body |-> Body(tag, text, NULL, NULL)]>>
    /\ Len(responses'[p].writes) = 1
    /\ responses'[p].writes[1].status = 202
    /\ bridge' = Cleared
    /\ \A x \in ResIds \ {p, bridge.invokeConnection} : responses'[x] = responses[x]

\* This step is a bridge call that returned false: p is not acknowledged, the
\* bridge is unchanged and nothing is written to any other response.
Rejected(p) ==
    /\ 202 \notin {responses'[p].writes[i].status : i \in DOMAIN responses'[p].writes}
    /\ bridge' = bridge
    /\ \A x \in ResIds \ {p} : responses'[x] = responses[x]

\* The error half and the refusal half of C25.
CompletionOfErrorsAndRefusals ==
    \A p \in OutcomeIds :
        /\ \A raw \in ErrorBodies :
             (handleInvocationErrorParsed(p, raw) /\ RuntimeError(parseJsonBody(raw).value).ok
                  /\ parseJsonBody(raw).ok /\ Matches(p)) =>
                 CompletesWith(p, 500, "handler-error",
                               RuntimeError(parseJsonBody(raw).value).errorMessage)
        /\ (Answers(p) /\ bridge.invokeConnection = NULL) => Rejected(p)

\* C25 as claimed: completion.  completeWithSuccess with the matching id while
\* an invocation is active writes 200 with the result to the held caller, and
\* completeWithError writes 500 with the error body; each returns true, clears
\* invokeConnection, currentRequestId and currentFunctionName and leaves
\* nextConnection unchanged; either returns false and writes nothing when no
\* invocation is active.
C25_Completion ==
    [][/\ \A p \in OutcomeIds, raw \in ResultBodies :
            (handleInvocationResponseParsed(p, raw) /\ parseJsonBody(raw).ok /\ Matches(p)) =>
                CompletesWith(p, 200, "result", parseJsonBody(raw).value)
       /\ CompletionOfErrorsAndRefusals]_vars

\* C25 amended: as C25, but a null result is written to the caller as {} (the
\* bridge writes JSON.stringify(result ?? {})).
C25_CompletionAmended ==
    [][/\ \A p \in OutcomeIds, raw \in ResultBodies :
            (handleInvocationResponseParsed(p, raw) /\ parseJsonBody(raw).ok /\ Matches(p)) =>
                CompletesWith(p, 200, "result",
                              IF parseJsonBody(raw).value = "null"
                              THEN "{}" ELSE parseJsonBody(raw).value)
       /\ CompletionOfErrorsAndRefusals]_vars

\* C25 witness: one caller was completed with 200 and the body {}, another with
\* 500 and the error body, and the invocation fields are cleared.
C25_Witness ==
    /\ \E r1, r2 \in InvokeIds :
          /\ \E w \in Writes(r1) : w.status = 200 /\ w.body = Body("result", "{}", NULL, NULL)
          /\ \E w \in Writes(r2) : w.status = 500 /\ w.body.tag = "handler-error"
    /\ bridge.invokeConnection = NULL
    /\ bridge.currentRequestId = NULL
    /\ bridge.currentFunctionName = NoName

\* ---- release of sessions

\* The invocation of caller r was completed by a runtime outcome POST.
Completed(r) == \E w \in Writes(r) : w.body.tag \in {"result", "handler-error"}

\* C26: release on completion.  After a triggered invocation is completed by a
\* matching response or error POST, the session created for it is eventually
\* released by a closeSession call with its id.
C26_ReleaseOnCompletion ==
    \A r \in InvokeIds : Completed(r) ~> (sessions[r].closeCalls >= 1)

\* C27: trigger-false release.  When handleFunctionInvoke has created a session
\* and triggerInvocation returns false, closeSession is called for that session
\* before the 503 is written (the step of the refusal calls it and writes
\* nothing), the caller then receives the 503 and nothing else, also when
\* closeSession fails, and the bridge is unchanged by both steps.
C27_TriggerFalseRelease ==
    /\ [][\A r \in InvokeIds :
            /\ TriggerFails(r) =>
                  /\ sessions'[r] = [created |-> TRUE, closeCalls |-> 1]
                  /\ responses' = responses
                  /\ bridge' = bridge
            /\ \A closed \in BOOLEAN :
                  handleFunctionInvokeCleaned(r, closed) =>
                      /\ sessions[r].closeCalls = 1
                      /\ responses[r].writes = <<>>
                      /\ Len(responses'[r].writes) = 1
                      /\ responses'[r].writes[1].status = 503
                      /\ bridge' = bridge]_vars
    /\ \A r \in InvokeIds : (tasks[r].pc = "cleaning") ~> (503 \in Statuses(r))

\* C27 witness: a caller whose trigger was refused has its 503 and its session
\* has been released once, while the invocation that was in its way is still
\* held by the bridge.
C27_Witness ==
    \E r \in InvokeIds :
        /\ tasks[r].pc = "done"
        /\ tasks[r].busy
        /\ Statuses(r) = {503}
        /\ sessions[r] = [created |-> TRUE, closeCalls |-> 1]
        /\ bridge.invokeConnection \notin {NULL, r}

\* ---- disconnects

\* C28: runtime disconnect.  Once the runtime's held next connection has closed
\* before a trigger, the bridge no longer holds it, so that no invocation is
\* triggered into the closed connection: nothing is ever written to it and no
\* caller is held for a payload that was delivered to it.
C28_RuntimeDisconnect ==
    \A n \in NextIds :
        responses[n].closed =>
            /\ bridge.nextConnection # n
            /\ responses[n].writes = <<>>

\* ---- session provisioning

\* C29: session provisioning failure.  When createSession fails in
\* handleFunctionInvoke, the caller receives 500 "Failed to create browser
\* session" and nothing else, triggerInvocation is not called (nothing is
\* written to a next connection, no request id is drawn, the caller is not
\* held), the bridge is unchanged, a held next connection stays held, and no
\* closeSession is issued.
C29_SessionProvisioningFailure ==
    [][\A r \in InvokeIds :
           handleFunctionInvokeSession(r, FALSE) =>
               /\ responses'[r].writes =
                      <<[status |-> 500,
                         body |-> Body("Internal Server Error",
                                       "Failed to create browser session", NULL, NULL)]>>
               /\ tasks'[r].pc = "done"
               /\ \A x \in ResIds \ {r} : responses'[x] = responses[x]
               /\ uuids' = uuids
               /\ bridge' = bridge
               /\ sessions' = sessions]_vars

\* C29 witness: a caller was answered 500 for the failed session while a next
\* connection was held; the connection is still held, untouched, and the caller
\* has no session and no closeSession call.
C29_Witness ==
    \E r \in InvokeIds :
        /\ \E w \in Writes(r) : w.body.text = "Failed to create browser session"
        /\ sessions[r] = NoSession
        /\ bridge.nextConnection # NULL
        /\ responses[bridge.nextConnection].writes = <<>>
        /\ bridge.invokeConnection = NULL

\* ---- concurrent invokes

\* Exactly one runtime poll has arrived so far.
OnePoll == Cardinality({n \in NextIds : responses[n].kind = "next"}) = 1

\* The handler of invoke r has reached its triggerInvocation call.
ReachedTrigger(r) == sessions[r].created

\* C30: concurrent invokes.  When two invokes for registered functions wait
\* for their sessions at the same time while the one next connection is held,
\* the one whose session comes first is triggered; and of two invokes that
\* reached their trigger with one poll, one triggered, the other is not: the
\* runtime has exactly one payload, the other's session is released, its
\* answer is a 503 and nothing else, and it does get that answer.
C30_ConcurrentInvokes ==
    /\ [][\A r1, r2 \in InvokeIds :
            (/\ r1 # r2
             /\ tasks[r1].pc = "creating" /\ tasks[r2].pc = "creating"
             /\ OnePoll /\ bridge.nextConnection # NULL /\ bridge.invokeConnection = NULL
             /\ tasks'[r1].pc \in {"held", "cleaning"}) =>
                /\ TriggerSucceeds(r1)
                /\ Payloads' = {Body("payload", tasks[r1].fn, bridge'.currentRequestId, r1)}
                /\ tasks'[r2].pc = "creating"
                /\ responses'[r2].writes = <<>>]_vars
    /\ [](\A r1, r2 \in InvokeIds :
            (/\ r1 # r2 /\ OnePoll
             /\ IssuedFor(r1) # {}
             /\ ReachedTrigger(r2)) =>
                /\ IssuedFor(r2) = {}
                /\ Cardinality(Payloads) = 1
                /\ sessions[r2].closeCalls = 1
                /\ Statuses(r2) \subseteq {503}
                /\ tasks[r2].pc = "done" => Statuses(r2) = {503})
    /\ \A r2 \in InvokeIds : (tasks[r2].pc = "cleaning") ~> (Statuses(r2) = {503})

\* C30 witness: with one poll, the invoke that arrived second was triggered and
\* is held, and the one that arrived first, whose session came later, was
\* refused because of it, has its 503 and its session released.
C30_Witness ==
    \E r1, r2 \in InvokeIds :
        /\ r2 < r1
        /\ OnePoll
        /\ Active(r1)
        /\ bridge.invokeConnection = r1
        /\ Cardinality(Payloads) = 1
        /\ tasks[r2].busy
        /\ Statuses(r2) = {503}
        /\ sessions[r2] = [created |-> TRUE, closeCalls |-> 1]

\* ---- request ids

\* Outcome POST p carries an id that names no active invocation: the id of an
\* earlier invocation, or any id while the bridge is idle.
Stale(p) == tasks[p].rid # bridge.currentRequestId \/ bridge.invokeConnection = NULL

\* The part of C31 that holds of the code: ids are fresh, and a stale outcome
\* POST is never acknowledged, changes no bridge field and writes to no caller.
C31_StaleNeverCompletes ==
    [][/\ \A r \in InvokeIds :
            TriggerSucceeds(r) => /\ bridge'.currentRequestId # NULL
                                  /\ bridge'.currentRequestId \notin IssuedIds
       /\ \A p \in OutcomeIds :
            (Answers(p) /\ Stale(p)) =>
                /\ 202 \notin {responses'[p].writes[i].status :
                                  i \in DOMAIN responses'[p].writes}
                /\ bridge' = bridge
                /\ \A r \in InvokeIds : responses'[r] = responses[r]]_vars

\* C31: request id freshness.  Every successful triggerInvocation issues a
\* request id different from every id issued before, and an outcome POST with
\* the id of an earlier invocation, or with any id while the bridge is idle, is
\* answered 400, changes no bridge field and writes to no caller.
C31_RequestIdFreshness ==
    [][/\ \A r \in InvokeIds :
            TriggerSucceeds(r) => /\ bridge'.currentRequestId # NULL
                                  /\ bridge'.currentRequestId \notin IssuedIds
       /\ \A p \in OutcomeIds :
            (Answers(p) /\ Stale(p)) =>
                /\ Len(responses'[p].writes) = 1
                /\ responses'[p].writes[1].status = 400
                /\ bridge' = bridge
                /\ \A r \in InvokeIds : responses'[r] = responses[r]]_vars

\* ---- registry mismatch in the loop

\* The iterations whose invocation names a function the registry does not hold.
Mismatches ==
    {log[i].iter : i \in {j \in DOMAIN log :
                              /\ log[j].ev = "resolved"
                              /\ log[j].op = "waitForNextInvocation"
                              /\ log[j].arg \notin RegistryNames}}

\* C32: registry mismatch in the loop.  When the received invocation names a
\* function for which getFunctionDefinitionByName returns null, the iteration
\* ends as a system error: executeFunction, handleSuccess and handleFailure are
\* each called zero times for it, so no outcome is posted.
C32_RegistryMismatch ==
    \A k \in Mismatches :
        /\ CallsOf("executeFunction", k) = {}
        /\ CallsOf("handleSuccess", k) = {}
        /\ CallsOf("handleFailure", k) = {}
        /\ "Function not found in registry" \in SystemErrorsOf(k)
        /\ iter = k => lpc \in {"loop", "exited"}

\* C32 witness: the first invocation named a function missing from the
\* registry, and the loop, in development, went on to execute the second one.
C32_Witness ==
    /\ environment = "development"
    /\ 1 \in Mismatches
    /\ CallsOf("executeFunction", 2) # {}
    /\ CallsOf("handleSuccess", 2) # {}

\* ---- routing

\* The responses whose kind this step sets: the requests it accepts.
Accepted == {r \in ResIds : responses[r].kind = "none" /\ responses'[r].kind # "none"}

\* This step hands one request to one handler: a request of this kind with
\* these path parameters.
Dispatched(kind, fn, rid) ==
    \E r \in ResIds :
        /\ Accepted = {r}
        /\ responses'[r].kind = kind
        /\ tasks'[r].fn = fn
        /\ tasks'[r].rid = rid

\* This step answers one request from handleRequest itself, with this status
\* and error, and calls no handler.
AnsweredBy(statusCode, error) ==
    \E r \in OtherIds :
        /\ Accepted = {r}
        /\ responses'[r].writes =
               <<[status |-> statusCode, body |-> Body(error, "", NULL, NULL)]>>
        /\ \A x \in ResIds \ {r} : responses'[x] = responses[x]
        /\ bridge' = bridge

\* A query string and a fragment, as the claim ignores them.
Ignored == {<<>>, <<"?", "a=1">>, <<"#", "fragment">>, <<"?", "a=1", "#", "fragment">>}

\* The requests the claim routes, with the handler and the parameters it names.
Routed(method, url, kind, fn, rid) ==
    \E q \in Ignored :
        \/ /\ method = "GET" /\ url = NextUrl \o q
           /\ kind = "next" /\ fn = NoName /\ rid = NULL
        \/ \E name \in {"echo", "ghost"} :
              /\ method = "POST" /\ url = InvokeUrl(name) \o q
              /\ kind = "invoke" /\ fn = name /\ rid = NULL
        \/ \E id \in {"1", "2"}, k \in {"response", "error"} :
              /\ method = "POST" /\ url = OutcomeUrl(id, k) \o q
              /\ kind = k /\ fn = NoName /\ rid = RequestIdOf(id)

Kinds == {"next", "invoke", "response", "error"}

IsRouted(method, url) ==
    \E kind \in Kinds, fn \in FunctionNames \cup {NoName}, rid \in RequestIds \cup {NULL} :
        Routed(method, url, kind, fn, rid)

\* C33: routing.  handleRequest hands GET .../invocation/next, POST
\* /v1/functions/{name}/invoke, POST .../invocation/{id}/response and POST
\* .../invocation/{id}/error to exactly one handler each, with the path
\* parameter and without the query string and fragment; any other method and
\* path, a wrong method on a known path and an empty or undefined URL included,
\* gets 404 {"error":"Not found"} and no handler; a handler that throws gets
\* 500 {"error":"Internal server error"}.
C33_Routing ==
    [][\A method \in Methods, url \in Urls, handlers \in HandlerImpls :
          handleRequestOf(method, url, handlers) =>
              IF IsRouted(method, url)
              THEN IF handlers = "throwing"
                   THEN AnsweredBy(500, "Internal server error")
                   ELSE \E kind \in Kinds, fn \in FunctionNames \cup {NoName},
                           rid \in RequestIds \cup {NULL} :
                            /\ Routed(method, url, kind, fn, rid)
                            /\ Dispatched(kind, fn, rid)
              ELSE AnsweredBy(404, "Not found")]_vars

\* The part of C33 that holds of the code: the same, for requests other than
\* OPTIONS and other than targets from which no URL can be built.
C33_RoutingOfParsedTargets ==
    [][\A method \in Methods \ {"OPTIONS"}, url \in Urls, handlers \in HandlerImpls :
          (handleRequestOf(method, url, handlers) /\ URL(url).ok) =>
              IF IsRouted(method, url)
              THEN IF handlers = "throwing"
                   THEN AnsweredBy(500, "Internal server error")
                   ELSE \E kind \in Kinds, fn \in FunctionNames \cup {NoName},
                           rid \in RequestIds \cup {NULL} :
                            /\ Routed(method, url, kind, fn, rid)
                            /\ Dispatched(kind, fn, rid)
              ELSE AnsweredBy(404, "Not found")]_vars

\* ---- parameter validation

\* C34: parameter validation.  When a function is registered with a
\* parametersSchema, execute validates the params against it before calling
\* the handler: for params that fail validation the handler is not called and
\* execute rejects (a user error in the loop), whatever the handler would do.
C34_ParameterValidation ==
    [][\A name \in LookupNames, params \in ParamsGiven, behaviour \in HandlerBehaviours :
           (/\ registryExecuteParams(name, params, behaviour)
            /\ name \in RegisteredNames
            /\ LatestOf(name).config = SchemaConfig
            /\ ~conforms(params)) =>
               /\ lastExecute'.called = NoName
               /\ lastExecute'.ev = "rejected"]_vars

\* ---- clear-once

\* C35: clear-once.  Within one introspect process run only the first defineFn
\* call clears and recreates the manifests directory; every later defineFn
\* call, a second registration of the first name included, only adds or
\* overwrites its own file and removes nothing.
C35_ClearOnce ==
    [][defineFn =>
          LET call == source[at + 1] IN
          /\ clears' = IF manager.phase = "introspect" /\ at = 0 THEN 1 ELSE clears
          /\ at > 0 =>
                /\ DOMAIN dir \subseteq DOMAIN dir'
                /\ \A f \in DOMAIN dir \ {ManifestFile(call.name)} : dir'[f] = dir[f]]_vars

\* The part of C35 that holds of the code: the first defineFn call of an
\* introspect run clears the directory, and no call removes or changes a file
\* that an earlier call of the same run wrote, other than its own.
C35_LaterCallsKeepFiles ==
    [][defineFn =>
          LET call == source[at + 1] IN
          /\ (manager.phase = "introspect" /\ at = 0) => clears' = 1
          /\ at > 0 =>
                /\ DOMAIN dir \subseteq DOMAIN dir'
                /\ \A f \in DOMAIN dir \ {ManifestFile(call.name)} : dir'[f] = dir[f]]_vars

\* ---- environment snapshot

\* C36: environment snapshot.  The values of environment, runtimeApi and phase
\* are fixed when the EnvironmentManager is constructed: the getters report
\* what the constructor read, and no later change of the environment object
\* changes what any of the three reports.
C36_EnvironmentSnapshot ==
    [][/\ newEnvironmentManager =>
             /\ get_environment(manager)' = getOrDefault(processEnv, "NODE_ENV", "local")
             /\ get_runtimeApi(manager)' =
                    getOrDefault(processEnv, "AWS_LAMBDA_RUNTIME_API", "127.0.0.1:9001")
             /\ get_phase(manager)' = getOrDefault(processEnv, "BB_FUNCTIONS_PHASE", "runtime")
       /\ \A env \in ProcessEnvs :
             setProcessEnv(env) =>
                 /\ get_environment(manager)' = get_environment(manager)
                 /\ get_runtimeApi(manager)' = get_runtimeApi(manager)
                 /\ get_phase(manager)' = get_phase(manager)]_vars

\* C36 witness: a manager built from one environment, after every variable of
\* that environment was changed to a value that a new manager would report.
C36_Witness ==
    /\ manager = [environment |-> "local", runtimeApi |-> "localhost:3000", phase |-> "runtime"]
    /\ processEnv = [NODE_ENV |-> "production", AWS_LAMBDA_RUNTIME_API |-> "",
                     BB_FUNCTIONS_PHASE |-> "introspect"]

\* ---- error report

\* C38: error report accepted.  Every RuntimeError that formatRuntimeError
\* makes of a thrown value satisfies the validation of the error endpoint
\* (errorMessage and errorType non-empty, stackTrace an array of non-empty
\* strings), so the error POST is never refused as an invalid error format.
C38_ErrorReportAccepted ==
    formatted # NoRuntimeError => RuntimeErrorAccepts(formatted)

\* ---- no stranded caller

\* C37: no stranded caller.  With a runtime running in the local environment
\* and fair scheduling, every invocation accepted by triggerInvocation
\* eventually has its held caller response written, and the bridge returns to
\* a state without an active invocation, also when the runtime's iteration for
\* it ends in a system error.
C37_NoStrandedCaller ==
    \A r \in InvokeIds :
        (bridge.invokeConnection = r) ~>
            (responses[r].writes # <<>> /\ bridge.invokeConnection # r)

\* Short of a rejected outcome POST the caller is answered: an invocation that
\* stays active had its outcome refused by the server.
C37_StrandedOnlyAfterRefusal ==
    \A r \in InvokeIds :
        (bridge.invokeConnection = r) ~>
            \/ responses[r].writes # <<>> /\ bridge.invokeConnection # r
            \/ \E p \in OutcomeIds :
                   /\ responses[p].writes # <<>>
                   /\ responses[p].writes[1].status # 202

\* ---- manifest store contents

\* The store a load should leave: the manifests of the *.json files now in
\* the directory under their names, nothing for a missing directory.
ManifestsOf(exists, d) ==
    IF ~exists
    THEN EmptyMap
    ELSE [n \in {d[f].name : f \in jsonFiles(d)} |->
             CHOOSE manifest \in {d[f] : f \in jsonFiles(d)} : manifest.name = n]

\* A step of startDevServer that called loadManifests.
LoadedManifests ==
    \/ spc = "new" /\ spc' = "started"
    \/ spc = "started" /\ spc' = "ready" /\ isRuntimeConnected(bridge)

\* C40: manifest store contents.  After each loadManifests call, the startup
\* load and the reload after the runtime connects, the store maps exactly the
\* names of the *.json manifests currently in the manifests directory: a
\* manifest whose file is gone at reload is no longer returned by getManifest,
\* and a missing directory leaves the store empty.
C40_ManifestStoreContents ==
    [][LoadedManifests =>
          /\ manifests' = ManifestsOf(present, dir)
          /\ \A n \in {"old", "echo", "double"} :
                 (~present \/ ManifestFile(n) \notin DOMAIN dir)
                     => getManifest(manifests', n) = NULL]_vars

\* The startup load alone leaves exactly the manifests of the directory.
C40_StartupLoad ==
    [][spc = "new" /\ spc' = "started" => manifests' = ManifestsOf(present, dir)]_vars

\* ---- write-once responses

\* C39: write-once responses.  Every response the dev server handles, a held
\* next response, a held caller response or the response of a runtime POST, is
\* completed at most once: a caller response stored as invokeConnection is not
\* also written by the error paths of handleFunctionInvoke or handleRequest,
\* a preempted or consumed next response is not written again, and the
\* response the bridge holds has not been written yet.
C39_WriteOnce ==
    /\ \A r \in ResIds : Len(responses[r].writes) <= 1
    /\ \A r \in ResIds :
           r \in {bridge.nextConnection, bridge.invokeConnection}
               => responses[r].writes = <<>>

\* A next response preempted and another consumed, a caller completed by the
\* runtime's POST and another refused, the POST acknowledged: each written
\* exactly once.
C39_Witness ==
    \E n1 \in NextIds, n2 \in NextIds, r1 \in InvokeIds, r2 \in InvokeIds, p \in OutcomeIds :
        /\ \A r \in {n1, n2, r1, r2, p} : Len(responses[r].writes) = 1
        /\ responses[n1].writes[1].status = 503
        /\ responses[n2].writes[1].status = 200
        /\ responses[r1].writes[1].status = 200
        /\ responses[r2].writes[1].status = 503
        /\ responses[p].writes[1].status = 202
        /\ bridge.invokeConnection = NULL

====
